---------------------------- MODULE Spec2Model ----------------------------
(***************************************************************************)
(* Cerberus / Fortify: the CAPTCHA engine, the local passport store, the   *)
(* circuit tracker and the /validate admission path, modelled over the     *)
(* shared key-value store (SET EX, GET, DEL, INCR, EXPIRE, EXISTS, TTL).   *)
(*                                                                         *)
(* Every store call of a handler is one step: the handlers are async and   *)
(* suspend on each call, so calls of concurrent requests interleave and    *)
(* the clock may advance between two calls of the same request.            *)
(* Durations are counted in clock ticks and scaled down; a key set with    *)
(* TTL d at time t is readable while now < t + d.                          *)
(***************************************************************************)
EXTENDS Integers, Sequences, FiniteSets, TLC

(* ------------------------------ bounds --------------------------------- *)
\* last clock value the model explores
MaxTime == 3
\* verify calls (each may mint one passport token)
MaxVerifies == 2
\* /validate requests
MaxRequests == 4
\* configured durations (config.rs defaults 300 s, 600 s), in ticks
ChallengeTtl == 2
PassportTtl == 3
\* circuit tracker: configured threshold and durations (config.rs defaults
\* 5, 1800 s, 3600 s; constants.rs CIRCUIT_TTL_SECS 1800 s), in ticks
MaxFailedAttempts == 3
CircuitTtl == 2
SoftLockDuration == 2
BanDuration == 3
\* the counters of a circuit record are explored up to these values
MaxFailCount == 4
\* the record_failure calls of one run of overlapping calls
MaxRaceCalls == 3
\* the tracker calls in the life of one circuit record
MaxTrackerCalls == 4
MaxSolveCount == 6
\* record_success promotes to Vip from this many solves (tracker.rs:146)
VipSolves == 5
\* /validate: configured requests per window (config.rs default 60) and the
\* window check_rate_limit sets on the counter (tracker.rs:213, 60 s), in ticks
MaxRequestsPerMinute == 2
RateWindow == 2
\* /validate requests of the passport-lifetime specification
MaxChecks == 2
\* cross-node passports: token_ttl_secs (default 30) in ticks
TokenTtl == 2
\* gossip: peer_timeout_secs (default 30) in ticks, and isolation_threshold
\* (default 0.5) as a fraction
PeerTimeout == 1
\* run_receiver, line 243: the sleep of one select! turn
SleepInterval == 1
ThresholdNum == 1
ThresholdDen == 2
\* ammo box: ram_capacity (10,000 in main.rs) scaled, the batch sizes of the
\* maintainer (500, 100, 1000) and of load_from_disk scaled with it,
\* dump_interval_secs (300) in ticks, and the calls explored
RamCapacity == 2
EmergencyBatch == 2
NormalBatch == 1
DumpBatch == 2
LoadMax == 2
DumpInterval == 1
MaxDiskCache == 3
MaxAmmoCalls == 3
\* the pool capacities over which the maintainer's choice of action is explored
MaxBandCapacity == 25
\* the handlers running at once: tracker calls, and /validate requests in flight
Workers == {"w1", "w2"}
MaxInFlight == Cardinality(Workers)

Circuits == {"C1", "C2"}

\* challenge ids generate hands out (each key is independent of the others)
ChalIds == {1}
VerifyIds == 1..MaxVerifies
ReqIds == 1..MaxRequests
\* a passport token is named by the verify call that minted it; 0 is a
\* token that was never minted
NoToken == 0
Tokens == 0..MaxVerifies

Difficulties == {"Easy", "Medium", "Hard", "Extreme"}
\* answers the generator produces: digits and upper-case letters only
GenAnswers == {"A7"}
\* answers a client may submit
UserAnswers == {"A7", "a7", "B7"}

VARIABLES
    now,        \* the clock (chrono::Utc::now().timestamp() and the store's clock)
    issued,     \* generate: per challenge id, what generate computed before SET EX
    captcha,    \* store: captcha:<id>
    passport,   \* store: passport:<token>
    vcall,      \* verify calls in flight or finished
    req,        \* /validate requests in flight or finished
    minted,     \* history: per token, the time its passport key was first set
    done,       \* history: per challenge id, some verify on it has returned a result
    circuit,    \* store: circuit:<id>
    tcall,      \* circuit tracker calls, one per worker
    hist,       \* history: per circuit, the tracker calls completed since a call last found no record
    ratelimit,  \* store: ratelimit:<id>
    peer_keys,  \* PassportService: the validating node's issuer id -> verifying key
    xminted,    \* cross-node tokens that PassportService::mint has returned
    xforged,    \* token strings made by rewriting a field of a known token
    xcall,      \* the last PassportService::validate call and its result
    gpeers,     \* GossipService: the peer map, per sender of a packet
    isolated,   \* GossipService: the isolated flag
    gcheck,     \* history: what the last check_peer_health counted and wrote
    rsleep,     \* run_receiver: when the select! of the current turn armed its sleep
    threat_level, \* AppState: the in-process Threat Dial
    threat_key, \* store: cerberus:threat_level
    scall,      \* POST /admin/threat-level requests, one per admin client
    pool,       \* AmmoBox: the RAM ring, oldest item first
    astats,     \* AmmoBox: the statistics counters
    disk,       \* AmmoBox: the spool directory, file name -> batch
    last_dump,  \* AmmoBox: last_dump
    athread,    \* AmmoBox: the calls that take several steps, one per thread
    acount,     \* history: pushes the ring accepted and pops that returned an item
    aret,       \* history: the call started last, what it was given and handed back
    proc,       \* main: the process runs, has broadcast shutdown, or has returned
    band,       \* maintain_ammo_box: a pool size and capacity, and the action chosen for them
    vform,      \* POST /verify: per verify call, the request being handled
    wrongs,     \* history: per circuit_id, the wrong POST /verify answered in a row
    chal,       \* the last GET /challenge carrying a circuit_id, and its answer
    page        \* the GET / being handled, and its answer

captchaVars == <<issued, captcha, vcall, done>>
passportVars == <<passport, minted>>
trackerVars == <<circuit, tcall, hist>>
crossNodeVars == <<peer_keys, xminted, xforged, xcall>>
\* the cluster and pool services, which share no state with the admission path
gossipVars == <<gpeers, isolated, gcheck, rsleep>>
ammoVars == <<pool, astats, disk, last_dump, athread, acount, aret, proc, band>>
routeVars == <<vform, wrongs, chal, page>>
threatVars == <<threat_level, threat_key, scall>>
otherVars == <<crossNodeVars, gossipVars, threatVars, ammoVars, routeVars>>
\* the admission path: the store and its handlers
coreVars == <<issued, captcha, passport, vcall, req, minted, done,
              circuit, tcall, hist, ratelimit>>
vars == <<now, coreVars, otherVars>>
\* what the cross-node passport service never touches
outsideCrossNode == <<coreVars, gossipVars, threatVars, ammoVars, routeVars>>
\* what the gossip service never touches
outsideGossip == <<coreVars, crossNodeVars, threatVars, ammoVars, routeVars>>
\* what the ammo box never touches
outsideAmmo == <<coreVars, crossNodeVars, gossipVars, threatVars, routeVars, proc, band>>
\* what the admin routes never touch
outsideThreat == <<coreVars, crossNodeVars, gossipVars, ammoVars, routeVars>>
\* what the HTTP handlers of /verify and /challenge leave alone besides the
\* verify call they run
outsideRoute == <<issued, captcha, done, passportVars, req, trackerVars, ratelimit,
                  crossNodeVars, gossipVars, threatVars, ammoVars>>
\* what the CAPTCHA engine never touches
outsideCaptcha == <<req, trackerVars, ratelimit, otherVars>>
\* what the circuit tracker never touches
outsideTracker == <<captchaVars, passportVars, req, ratelimit, otherVars>>

(* ------------------------------ the store ------------------------------ *)
NoChallenge == [present |-> FALSE, answer |-> "", difficulty |-> "Easy",
                expires_at |-> 0, key_exp |-> 0]
NoPassport == [present |-> FALSE, key_exp |-> 0]
NotIssued == [state |-> "unused", answer |-> "", difficulty |-> "Easy", expires_at |-> 0]

\* keys whose TTL has run out at time t are gone
Expire(store, t, none) ==
    [k \in DOMAIN store |->
        IF store[k].present /\ store[k].key_exp <= t THEN none ELSE store[k]]

(* ------------------------------ to_uppercase --------------------------- *)
ToUpper(s) ==
    CASE s = "a7" -> "A7"
      [] OTHER -> s

(* ------------------------------ CAPTCHA engine ------------------------- *)
\* late, overdue and correct are history: at the call's GET, had a verify on
\* the same challenge already returned, was the clock already past expires_at,
\* and is the submitted answer the one generate chose
IdleCall == [pc |-> "idle", cid |-> 1, answer |-> "", stored |-> NoChallenge,
             late |-> FALSE, overdue |-> FALSE, correct |-> FALSE, result |-> "none"]

\* a returned call keeps its result only
Return(call, out) ==
    [call EXCEPT !.pc = "done", !.result = out, !.stored = NoChallenge, !.answer = ""]

\* call slots are taken in order (the slots are interchangeable)
InOrder(calls, i) == \A j \in DOMAIN calls : j < i => calls[j].pc # "idle"

\* generate, lines 32-45: a fresh random id, the answer, now and expires_at
Generate_Begin(c, ans, diff) ==
    /\ issued[c].state = "unused"
    /\ \A d \in ChalIds : d < c => issued[d].state # "unused"
    /\ issued' = [issued EXCEPT ![c] =
            [state |-> "computed", answer |-> ans, difficulty |-> diff,
             expires_at |-> now + ChallengeTtl]]
    /\ UNCHANGED <<now, captcha, vcall, done, passportVars, outsideCaptcha>>

\* generate, lines 47-51: SET EX captcha:<id> with TTL challenge_ttl
Generate_Store(c) ==
    /\ issued[c].state = "computed"
    /\ issued' = [issued EXCEPT ![c].state = "stored"]
    /\ captcha' = [captcha EXCEPT ![c] =
            [present |-> TRUE, answer |-> issued[c].answer,
             difficulty |-> issued[c].difficulty,
             expires_at |-> issued[c].expires_at,
             key_exp |-> now + ChallengeTtl]]
    /\ UNCHANGED <<now, vcall, done, passportVars, outsideCaptcha>>

\* verify, line 34: GET captcha:<id>. The id is 128 random bits (generate,
\* lines 71-76): a client has it only from generate's response.
Verify_Get(v, c, ans) ==
    /\ vcall[v].pc = "idle"
    /\ InOrder(vcall, v)
    /\ issued[c].state = "stored"
    /\ vcall' = [vcall EXCEPT ![v] =
            [pc |-> "del", cid |-> c, answer |-> ans, stored |-> captcha[c],
             late |-> done[c],
             overdue |-> now > issued[c].expires_at,
             correct |-> ans = issued[c].answer,
             result |-> "none"]]
    /\ UNCHANGED <<now, issued, captcha, done, passportVars, outsideCaptcha>>

\* verify without the DEL: the fetched challenge stays in the store
Verify_Del_Skipped(v) ==
    /\ vcall[v].pc = "del"
    /\ vcall' = [vcall EXCEPT ![v].pc = "check"]
    /\ UNCHANGED <<now, issued, captcha, done, passportVars, outsideCaptcha>>

\* verify, line 35: DEL captcha:<id>
Verify_Del(v) ==
    /\ vcall[v].pc = "del"
    /\ captcha' = [captcha EXCEPT ![vcall[v].cid] = NoChallenge]
    /\ vcall' = [vcall EXCEPT ![v].pc = "check"]
    /\ UNCHANGED <<now, issued, done, passportVars, outsideCaptcha>>

\* the expiry test left to the store's TTL alone
Expired_Never(t, challenge) == FALSE

\* verify, line 53: the expiry test on the fetched challenge
Expired(t, challenge) == t > challenge.expires_at

\* the comparison ignoring case at every difficulty
AnswerMatches_AlwaysFolded(challenge, user_answer) ==
    ToUpper(user_answer) = ToUpper(challenge.answer)

\* verify, lines 76-83: the answer comparison by difficulty
AnswerMatches(challenge, user_answer) ==
    IF challenge.difficulty \in {"Easy", "Medium"}
    THEN ToUpper(user_answer) = ToUpper(challenge.answer)
    ELSE user_answer = challenge.answer

\* verify, lines 37-83 and 113-126: the outcome decided from the fetched value
VerifyOutcome(stored, t, user_answer) ==
    IF ~stored.present THEN "invalid"
    ELSE IF Expired(t, stored) THEN "expired"
    ELSE IF AnswerMatches(stored, user_answer) THEN "success"
    ELSE "incorrect"

Verify_Check(v) ==
    /\ vcall[v].pc = "check"
    /\ LET out == VerifyOutcome(vcall[v].stored, now, vcall[v].answer) IN
        IF out = "success"
        THEN /\ vcall' = [vcall EXCEPT ![v].pc = "mint"]
             /\ UNCHANGED done
        ELSE /\ vcall' = [vcall EXCEPT ![v] = Return(@, out)]
             /\ done' = [done EXCEPT ![vcall[v].cid] = TRUE]
    /\ UNCHANGED <<now, issued, captcha, passportVars, outsideCaptcha>>

\* verify, lines 85-112: SET EX passport:<token> with TTL passport_ttl
Verify_Mint(v) ==
    /\ vcall[v].pc = "mint"
    /\ passport' = [passport EXCEPT ![v] = [present |-> TRUE, key_exp |-> now + PassportTtl]]
    /\ minted' = [minted EXCEPT ![v] = now]
    /\ vcall' = [vcall EXCEPT ![v] = Return(@, "success")]
    /\ done' = [done EXCEPT ![vcall[v].cid] = TRUE]
    /\ UNCHANGED <<now, issued, captcha, outsideCaptcha>>

(* ------------------------------ circuit tracker ------------------------ *)
NoCircuit == [present |-> FALSE, status |-> "New", failed_attempts |-> 0,
              successful_solves |-> 0, key_exp |-> 0]

\* CircuitInfo::new: status New, both counters 0
NewCircuitInfo == [status |-> "New", failed_attempts |-> 0, successful_solves |-> 0]

InfoOf(rec) == [status |-> rec.status, failed_attempts |-> rec.failed_attempts,
                successful_solves |-> rec.successful_solves]

\* a soft lock kept as long as a ban
SaveTtl_LongLock(status) ==
    CASE status \in {"Banned", "SoftLocked"} -> BanDuration
      [] OTHER -> CircuitTtl

\* save, lines 89-93: the TTL chosen by the status being written
SaveTtl(status) ==
    CASE status = "Banned" -> BanDuration
      [] status = "SoftLocked" -> SoftLockDuration
      [] OTHER -> CircuitTtl

\* save, lines 85-95: SET EX circuit:<id>
Save(store, cid, info, t) ==
    [store EXCEPT ![cid] =
        [present |-> TRUE, status |-> info.status,
         failed_attempts |-> info.failed_attempts,
         successful_solves |-> info.successful_solves,
         key_exp |-> t + SaveTtl(info.status)]]

IdleWorker == [pc |-> "idle", op |-> "none", cid |-> "C1", info |-> NewCircuitInfo]
\* ban_exp: when the record saved by the last returned ban runs out; calls and
\* base: while record_failure calls overlap, how many have started since none
\* was running, the failed_attempts stored when the first of them started,
\* and whether the record's TTL ran out since
NoHist == [fails |-> 0, succs |-> 0, bans |-> 0, last |-> "none", ban_exp |-> 0,
           calls |-> 0, base |-> 0, evicted |-> FALSE]

\* the record_failure calls on circuit cid that have not returned, but for w's
FailuresRunning(w, cid) ==
    {x \in Workers \ {w} : /\ tcall[x].pc # "idle" /\ tcall[x].op = "record_failure"
                            /\ tcall[x].cid = cid}

TrackerOps == {"get_or_create", "record_failure", "record_success", "ban"}

\* get_or_create, line 43: GET circuit:<id>; the caller is one of TrackerOps
GetOrCreate_Get(w, op, cid) ==
    /\ tcall[w].pc = "idle"
    /\ op = "record_failure" => circuit[cid].failed_attempts < MaxFailCount
    /\ (op = "record_failure" /\ FailuresRunning(w, cid) # {}) =>
           hist[cid].calls < MaxRaceCalls
    /\ op = "record_success" => circuit[cid].successful_solves < MaxSolveCount
    /\ tcall' = [tcall EXCEPT ![w] =
            [pc |-> "goc_save", op |-> op, cid |-> cid,
             info |-> IF circuit[cid].present THEN InfoOf(circuit[cid])
                      ELSE NewCircuitInfo]]
    /\ LET h == IF circuit[cid].present THEN hist[cid]
                ELSE [NoHist EXCEPT !.ban_exp = hist[cid].ban_exp,
                                    !.calls = hist[cid].calls,
                                    !.base = hist[cid].base,
                                    !.evicted = hist[cid].evicted] IN
       hist' = [hist EXCEPT ![cid] =
                   IF op # "record_failure" THEN h
                   ELSE IF FailuresRunning(w, cid) # {}
                   THEN [h EXCEPT !.calls = @ + 1]
                   ELSE [h EXCEPT !.calls = 1, !.base = circuit[cid].failed_attempts,
                                  !.evicted = FALSE]]
    /\ UNCHANGED <<now, circuit, outsideTracker>>

\* get_or_create, lines 45-61: save what was read, or the new record
GetOrCreate_Save(w) ==
    /\ tcall[w].pc = "goc_save"
    /\ circuit' = Save(circuit, tcall[w].cid, tcall[w].info, now)
    /\ IF tcall[w].op = "get_or_create"
       THEN tcall' = [tcall EXCEPT ![w] = IdleWorker]
       ELSE tcall' = [tcall EXCEPT ![w].pc = "update"]
    /\ UNCHANGED <<now, hist, outsideTracker>>

\* the soft-lock test one attempt late
FailureInfo_OffByOne(info) ==
    LET n == info.failed_attempts + 1 IN
    [info EXCEPT !.failed_attempts = n,
                 !.status = IF n > MaxFailedAttempts THEN "SoftLocked" ELSE info.status]

\* the failure not counted
FailureInfo_NotCounted(info) ==
    [info EXCEPT !.status = IF info.failed_attempts >= MaxFailedAttempts
                            THEN "SoftLocked" ELSE info.status]

\* record_failure, lines 108-119: what is saved
FailureInfo(info) ==
    LET n == info.failed_attempts + 1 IN
    [info EXCEPT !.failed_attempts = n,
                 !.status = IF n >= MaxFailedAttempts THEN "SoftLocked" ELSE info.status]

\* the failure counter not reset
SuccessInfo_NoReset(info) ==
    LET n == info.successful_solves + 1 IN
    [status |-> IF n >= VipSolves THEN "Vip" ELSE "Verified",
     failed_attempts |-> info.failed_attempts,
     successful_solves |-> n]

\* the Vip test one solve late
SuccessInfo_OffByOne(info) ==
    LET n == info.successful_solves + 1 IN
    [status |-> IF n > VipSolves THEN "Vip" ELSE "Verified",
     failed_attempts |-> 0,
     successful_solves |-> n]

\* a soft-locked circuit left soft-locked by a solve
SuccessInfo_StaysLocked(info) ==
    LET n == info.successful_solves + 1 IN
    [status |-> IF n >= VipSolves THEN "Vip"
                ELSE IF info.status = "SoftLocked" THEN "SoftLocked" ELSE "Verified",
     failed_attempts |-> 0,
     successful_solves |-> n]

\* record_success, lines 136-149: what is saved
SuccessInfo(info) ==
    LET n == info.successful_solves + 1 IN
    [status |-> IF n >= VipSolves THEN "Vip" ELSE "Verified",
     failed_attempts |-> 0,
     successful_solves |-> n]

\* ban, line 165: what is saved
BanInfo(info) == [info EXCEPT !.status = "Banned"]

\* record_failure, line 121
RecordFailure_Save(w) ==
    /\ tcall[w].pc = "update" /\ tcall[w].op = "record_failure"
    /\ circuit' = Save(circuit, tcall[w].cid, FailureInfo(tcall[w].info), now)
    /\ hist' = [hist EXCEPT ![tcall[w].cid].fails = IF @ < MaxFailCount THEN @ + 1 ELSE @,
                            ![tcall[w].cid].last = "record_failure",
                            ![tcall[w].cid].calls =
                                IF FailuresRunning(w, tcall[w].cid) = {} THEN 0 ELSE @,
                            ![tcall[w].cid].base =
                                IF FailuresRunning(w, tcall[w].cid) = {} THEN 0 ELSE @,
                            ![tcall[w].cid].evicted =
                                IF FailuresRunning(w, tcall[w].cid) = {} THEN FALSE ELSE @]
    /\ tcall' = [tcall EXCEPT ![w] = IdleWorker]
    /\ UNCHANGED <<now, outsideTracker>>

\* record_success, line 151
RecordSuccess_Save(w) ==
    /\ tcall[w].pc = "update" /\ tcall[w].op = "record_success"
    /\ circuit' = Save(circuit, tcall[w].cid, SuccessInfo(tcall[w].info), now)
    /\ hist' = [hist EXCEPT ![tcall[w].cid].succs = @ + 1,
                            ![tcall[w].cid].last = "record_success"]
    /\ tcall' = [tcall EXCEPT ![w] = IdleWorker]
    /\ UNCHANGED <<now, outsideTracker>>

\* ban, line 168
Ban_Save(w) ==
    /\ tcall[w].pc = "update" /\ tcall[w].op = "ban"
    /\ circuit' = Save(circuit, tcall[w].cid, BanInfo(tcall[w].info), now)
    /\ hist' = [hist EXCEPT ![tcall[w].cid].bans = 1,
                            ![tcall[w].cid].last = "ban",
                            ![tcall[w].cid].ban_exp = now + BanDuration]
    /\ tcall' = [tcall EXCEPT ![w] = IdleWorker]
    /\ UNCHANGED <<now, outsideTracker>>

\* is_allowed that denies banned circuits only
IsAllowed_BannedOnly(rec) ==
    IF rec.present /\ rec.status = "Banned" THEN <<FALSE, "Circuit is banned">>
    ELSE <<TRUE, "">>

\* is_allowed, lines 185-196, on the value GET circuit:<id> returns
IsAllowed(rec) ==
    IF ~rec.present THEN <<TRUE, "">>
    ELSE CASE rec.status = "Banned" -> <<FALSE, "Circuit is banned">>
           [] rec.status = "SoftLocked" ->
                <<FALSE, "Too many failed attempts. Try again later.">>
           [] OTHER -> <<TRUE, "">>

(* ------------------------------ rate limit ----------------------------- *)
\* epoch is history: how many times the counter key has been created
NoRate == [present |-> FALSE, count |-> 0, has_ttl |-> FALSE, key_exp |-> 0, epoch |-> 0]

ExpireRate(store, t) ==
    [k \in DOMAIN store |->
        IF store[k].present /\ store[k].has_ttl /\ store[k].key_exp <= t
        THEN [NoRate EXCEPT !.epoch = store[k].epoch]
        ELSE store[k]]

\* INCR adding two
Incr_Twice(rec) ==
    IF rec.present THEN [rec EXCEPT !.count = @ + 2]
    ELSE [present |-> TRUE, count |-> 2, has_ttl |-> FALSE, key_exp |-> 0,
          epoch |-> rec.epoch + 1]

\* INCR ratelimit:<id>: a missing key counts from 0 and has no expiry
Incr(rec) ==
    IF rec.present THEN [rec EXCEPT !.count = @ + 1]
    ELSE [present |-> TRUE, count |-> 1, has_ttl |-> FALSE, key_exp |-> 0,
          epoch |-> rec.epoch + 1]

\* the limit test admitting one request too many
RateAllowed_OffByOne(count) == count <= MaxRequestsPerMinute + 1

\* check_rate_limit, line 216
RateAllowed(count) == count <= MaxRequestsPerMinute

(* ------------------------------ GET /validate -------------------------- *)
NoCid == "none"
\* seen, count and exists are what the request's GET circuit:<id>, INCR and
\* EXISTS returned. History: epoch and rl_at, the counter key's incarnation
\* and the time at the INCR; fresh, at the EXISTS was the token minted less
\* than passport_ttl earlier; after_ban, at the GET had a ban of the circuit
\* returned whose record has not run out
IdleReq == [pc |-> "idle", token |-> NoToken, cid |-> NoCid, seen |-> "none",
            count |-> 0, epoch |-> 0, rl_at |-> 0, exists |-> FALSE, fresh |-> FALSE,
            after_ban |-> FALSE, ttl |-> 0, resp |-> 0, failed |-> FALSE]

Respond(r, code) == [r EXCEPT !.pc = "done", !.resp = code, !.ttl = 0]

InFlight == {r \in ReqIds : req[r].pc \notin {"idle", "done"}}

\* routes/passport.rs lines 36-44: is_allowed; a denial answers 403
Validate_IsAllowed(r, tok, cid) ==
    /\ req[r].pc = "idle"
    /\ InOrder(req, r)
    /\ Cardinality(InFlight) < MaxInFlight
    /\ tok = NoToken \/ minted[tok] >= 0
    /\ LET allowed == IsAllowed(circuit[cid])[1]
           q == [req[r] EXCEPT !.token = tok, !.cid = cid,
                               !.seen = IF circuit[cid].present THEN circuit[cid].status
                                        ELSE "absent",
                               !.after_ban = now < hist[cid].ban_exp] IN
       req' = [req EXCEPT ![r] = IF allowed THEN [q EXCEPT !.pc = "incr"]
                                 ELSE Respond(q, 403)]
    /\ UNCHANGED <<now, captchaVars, passportVars, trackerVars, ratelimit, otherVars>>

\* routes/passport.rs lines 56-61 on check_rate_limit's result: 429 or go on
AfterRateLimit(q) ==
    IF RateAllowed(q.count) THEN [q EXCEPT !.pc = "exists"] ELSE Respond(q, 429)

\* check_rate_limit, line 209: INCR; the first request goes on to EXPIRE
CheckRateLimit_Incr(r) ==
    /\ req[r].pc = "incr"
    /\ LET rec == Incr(ratelimit[req[r].cid])
           q == [req[r] EXCEPT !.count = rec.count, !.epoch = rec.epoch, !.rl_at = now] IN
       /\ ratelimit' = [ratelimit EXCEPT ![req[r].cid] = rec]
       /\ req' = [req EXCEPT ![r] = IF rec.count = 1 THEN [q EXCEPT !.pc = "rl_expire"]
                                    ELSE AfterRateLimit(q)]
    /\ UNCHANGED <<now, captchaVars, passportVars, trackerVars, otherVars>>

\* check_rate_limit, lines 212-214: EXPIRE ratelimit:<id> 60
CheckRateLimit_Expire(r) ==
    /\ req[r].pc = "rl_expire"
    /\ ratelimit' = [ratelimit EXCEPT ![req[r].cid] =
            IF @.present THEN [@ EXCEPT !.has_ttl = TRUE, !.key_exp = now + RateWindow]
            ELSE @]
    /\ req' = [req EXCEPT ![r] = AfterRateLimit(req[r])]
    /\ UNCHANGED <<now, captchaVars, passportVars, trackerVars, otherVars>>

\* validate_passport, line 146: EXISTS passport:<token>; absent answers 401
AfterExists(q) ==
    LET e == passport[q.token].present
        q2 == [q EXCEPT !.exists = e,
                        !.fresh = minted[q.token] >= 0 /\ now < minted[q.token] + PassportTtl] IN
    IF e THEN [q2 EXCEPT !.pc = "ttl"] ELSE Respond(q2, 401)

\* routes/passport.rs lines 41, 62, 81: the answer to a store error
StoreErrorStatus == 500

\* routes/passport.rs lines 39-42: the GET of is_allowed fails
Validate_IsAllowed_Err(r, tok, cid) ==
    /\ req[r].pc = "idle"
    /\ InOrder(req, r)
    /\ Cardinality(InFlight) < MaxInFlight
    /\ tok = NoToken \/ minted[tok] >= 0
    /\ req' = [req EXCEPT ![r] =
                  Respond([req[r] EXCEPT !.token = tok, !.cid = cid, !.failed = TRUE],
                          StoreErrorStatus)]
    /\ UNCHANGED <<now, captchaVars, passportVars, trackerVars, ratelimit, otherVars>>

\* routes/passport.rs lines 60-63 and 79-82: the store call the request is
\* about to make (INCR, EXPIRE, EXISTS or TTL) fails and reaches no key
Validate_StoreErr(r) ==
    /\ req[r].pc \in {"incr", "rl_expire", "exists", "ttl", "expire"}
    /\ req' = [req EXCEPT ![r] = Respond([req[r] EXCEPT !.failed = TRUE],
                                          StoreErrorStatus)]
    /\ UNCHANGED <<now, captchaVars, passportVars, trackerVars, ratelimit, otherVars>>

\* a request without circuit_id goes straight to validate_passport
Validate_NoCircuit(r, tok) ==
    /\ req[r].pc = "idle"
    /\ InOrder(req, r)
    /\ Cardinality(InFlight) < MaxInFlight
    /\ tok = NoToken \/ minted[tok] >= 0
    /\ req' = [req EXCEPT ![r] = AfterExists([req[r] EXCEPT !.token = tok])]
    /\ UNCHANGED <<now, captchaVars, passportVars, trackerVars, ratelimit, otherVars>>

ValidatePassport_Exists(r) ==
    /\ req[r].pc = "exists"
    /\ req' = [req EXCEPT ![r] = AfterExists(req[r])]
    /\ UNCHANGED <<now, captchaVars, passportVars, trackerVars, ratelimit, otherVars>>

\* TTL passport:<token>: the remaining lifetime, -2 for a missing key
Ttl(rec) == IF rec.present THEN rec.key_exp - now ELSE 0 - 2

\* validate_passport, lines 150-151: TTL; a key that exists answers 200
ValidatePassport_Ttl(r) ==
    /\ req[r].pc = "ttl"
    /\ LET t == Ttl(passport[req[r].token])
           q == [req[r] EXCEPT !.ttl = t] IN
       req' = [req EXCEPT ![r] = IF t > 0 THEN [q EXCEPT !.pc = "expire"]
                                 ELSE Respond(q, 200)]
    /\ UNCHANGED <<now, captchaVars, passportVars, trackerVars, ratelimit, otherVars>>

\* EXPIRE passport:<token> ttl, as the store applies it when it arrives
Touch(rec, ttl) == IF rec.present THEN [rec EXCEPT !.key_exp = now + ttl] ELSE rec

\* validate_passport, line 153: EXPIRE passport:<token> ttl
ValidatePassport_Expire(r) ==
    /\ req[r].pc = "expire"
    /\ passport' = [passport EXCEPT ![req[r].token] = Touch(@, req[r].ttl)]
    /\ req' = [req EXCEPT ![r] = Respond(req[r], 200)]
    /\ UNCHANGED <<now, captchaVars, minted, trackerVars, ratelimit, otherVars>>

(* ------------------------------ cross-node passport -------------------- *)
\* a node id is a string; it is kept as the pieces between its ':' characters,
\* so "n3:9" is <<"n3", "9">>
NodeIds == {<<"n1">>, <<"n2">>, <<"n3", "9">>}
\* a key pair is named by the node that holds the signing key
AdvKey == <<"adv">>
NoKey == <<>>
\* spellings of the expiry field: the digits alone, after '+', after a
\* leading '0', after '-'
Prefixes == {"", "+", "0", "-"}

\* format!("{}", expiry): the decimal digits of the number (one digit here)
Digits == <<"0", "1", "2", "3", "4", "5", "6", "7", "8", "9">>
Format(v) == Digits[v + 1]

\* str::parse::<u64>, line 194: a '+' and leading zeros are read over, a '-'
\* is an error (-1 here)
ParseU64(e) == IF e.pre \in {"", "+", "0"} THEN e.val ELSE 0 - 1

\* format!("{}:{}:{}", target, expiry, issuer), lines 160 and 231, as pieces
PayloadOf(target, val, issuer) == target \o <<Format(val)>> \o issuer

\* ed25519 signing: a signature names the key and the bytes signed
Sign(key, payload) == [signer |-> key, payload |-> payload]

\* a verification that no signature passes
Verify_Never(key, payload, sig) == FALSE

\* VerifyingKey::verify, line 232
Verify(key, payload, sig) == sig.signer = key /\ sig.payload = payload

\* mint, lines 152-176, by node i for target t at time at
MintToken(i, t, at) ==
    [target |-> t, exp |-> [pre |-> "", val |-> at + TokenTtl], issuer |-> i,
     sig |-> Sign(i, PayloadOf(t, at + TokenTtl, i))]

\* token_str.split(':'), line 188: the number of parts
PartCount(tok) == Len(tok.target) + 1 + Len(tok.issuer) + 1

\* a target test that passes every token
TargetOk_Any(n, target) == TRUE

\* line 200
TargetOk(n, target) == target = n

\* PassportToken::is_expired, lines 63-69
IsExpired(tok, t) == tok.exp.val < t

KeyOf(keys, i) == IF i \in DOMAIN keys THEN keys[i] ELSE NoKey

Rejected(why) == [ok |-> FALSE, error |-> why, target |-> <<>>, expiry |-> 0,
                  issuer |-> <<>>]

\* validate, lines 188-247, on node n at time t with the peer keys of n
ValidateToken(n, tok, t, keys) ==
    IF PartCount(tok) # 4 THEN Rejected("Invalid token format")
    ELSE IF ParseU64(tok.exp) < 0 THEN Rejected("Invalid expiry timestamp")
    ELSE LET expiry == ParseU64(tok.exp) IN
         IF ~TargetOk(n, tok.target) THEN Rejected("Token not for this node")
         ELSE IF expiry < t THEN Rejected("Token expired")
         ELSE IF KeyOf(keys, tok.issuer) = NoKey THEN Rejected("Unknown issuer")
         ELSE IF ~Verify(KeyOf(keys, tok.issuer),
                         PayloadOf(tok.target, expiry, tok.issuer), tok.sig)
              THEN Rejected("Invalid signature")
         ELSE [ok |-> TRUE, error |-> "", target |-> tok.target, expiry |-> expiry,
               issuer |-> tok.issuer]

NoXCall == [node |-> <<>>, tok |-> MintToken(<<>>, <<>>, 0), at |-> 0, called |-> FALSE,
            result |-> Rejected("")]

KnownTokens == xminted \cup xforged

\* the strings one rewritten field away from a known token: another target,
\* expiry number, expiry spelling or issuer, the signature of another token
\* some node minted, or a signature made with a key no node holds
Alterations(tok) ==
    ({[tok EXCEPT !.target = t] : t \in NodeIds}
     \cup {[tok EXCEPT !.exp.val = v] : v \in 0..(MaxTime + TokenTtl)}
     \cup {[tok EXCEPT !.exp.pre = p] : p \in Prefixes}
     \cup {[tok EXCEPT !.issuer = i] : i \in NodeIds}
     \cup {[tok EXCEPT !.sig = MintToken(tok.issuer, t, at).sig] :
               t \in NodeIds, at \in 0..MaxTime}
     \cup {[tok EXCEPT !.sig = MintToken(i, tok.target, at).sig] :
               i \in NodeIds, at \in 0..MaxTime}
     \cup {[tok EXCEPT !.sig = Sign(AdvKey, PayloadOf(tok.target, tok.exp.val, tok.issuer))]})
    \ {tok}

\* PassportService::mint on node i; one token is followed
Mint(i, t) ==
    /\ ~xcall.called
    /\ xminted = {}
    /\ xminted' = {MintToken(i, t, now)}
    /\ UNCHANGED <<now, outsideCrossNode, peer_keys, xforged, xcall>>

\* a client rewrites the token it holds into tok2, one of Alterations(tok)
Alter(tok, tok2) ==
    /\ ~xcall.called
    /\ tok \in xminted
    /\ tok2 # tok
    /\ xforged = {}
    /\ xforged' = {tok2}
    /\ UNCHANGED <<now, outsideCrossNode, peer_keys, xminted, xcall>>

\* add_peer_key, lines 251-269: the validating node files key k under issuer
\* i; one peer key is followed
AddPeerKey(i, k) ==
    /\ ~xcall.called
    /\ \A m \in NodeIds : peer_keys[m] = NoKey
    /\ peer_keys' = [peer_keys EXCEPT ![i] = k]
    /\ UNCHANGED <<now, outsideCrossNode, xminted, xforged, xcall>>

\* PassportService::validate on the validating node, whose node_id is n
Validate(n, tok) ==
    /\ ~xcall.called
    /\ tok \in KnownTokens
    /\ xcall' = [node |-> n, tok |-> tok, at |-> now, called |-> TRUE,
                 result |-> ValidateToken(n, tok, now, peer_keys)]
    /\ UNCHANGED <<now, outsideCrossNode, peer_keys, xminted, xforged>>

CrossNodeInit ==
    /\ peer_keys = [i \in NodeIds |-> NoKey]
    /\ xminted = {}
    /\ xforged = {}
    /\ xcall = NoXCall

(* ------------------------------ gossip --------------------------------- *)
\* GossipConfig::peers, the configured peers; the node itself also sends
GossipPeers == {"p1", "p2", "p3"}
GossipSelf == "self"
\* a datagram that is not the JSON of a GossipPacket
BadDatagram == "garbage"
Datagrams == GossipPeers \cup {GossipSelf, BadDatagram}

NoHealth == [known |-> FALSE, last_seen |-> 0, is_healthy |-> FALSE]
NoCheck == [done |-> FALSE, total |-> 0, timed_out |-> 0, before |-> FALSE,
            isolated |-> FALSE]

\* the packets of the node itself are taken in like any other
HandlePacket_NoSelfCheck(p) ==
    /\ gpeers' = IF p = BadDatagram THEN gpeers
                 ELSE [gpeers EXCEPT ![p] = [known |-> TRUE, last_seen |-> now,
                                             is_healthy |-> TRUE]]
    /\ UNCHANGED <<now, outsideGossip, isolated, gcheck>>

\* handle_packet, lines 256-287: a datagram arrives, carrying node_id p when
\* it parses
HandlePacket(p) ==
    /\ gpeers' = IF p = BadDatagram \/ p = GossipSelf THEN gpeers
                 ELSE [gpeers EXCEPT ![p] = [known |-> TRUE, last_seen |-> now,
                                             is_healthy |-> TRUE]]
    /\ UNCHANGED <<now, outsideGossip, isolated, gcheck>>

\* line 296: last_seen.elapsed() > timeout
TimedOut(h) == now - h.last_seen > PeerTimeout

\* the isolation test with a strict comparison
IsolatedBy_Strict(unhealthy, total) == unhealthy * ThresholdDen > ThresholdNum * total

\* lines 312-313: unhealthy / total >= isolation_threshold
IsolatedBy(unhealthy, total) == unhealthy * ThresholdDen >= ThresholdNum * total

\* check_peer_health, lines 290-329
CheckPeerHealth ==
    LET known == {p \in DOMAIN gpeers : gpeers[p].known}
        late == {p \in known : TimedOut(gpeers[p])}
        total_peers == Cardinality(known)
        unhealthy_count == Cardinality(late) IN
    /\ gpeers' = [p \in DOMAIN gpeers |->
                     IF p \in late THEN [gpeers[p] EXCEPT !.is_healthy = FALSE]
                     ELSE gpeers[p]]
    /\ isolated' = IF total_peers > 0 THEN IsolatedBy(unhealthy_count, total_peers)
                   ELSE isolated
    /\ gcheck' = [done |-> TRUE, total |-> total_peers, timed_out |-> unhealthy_count,
                  before |-> isolated, isolated |-> isolated']
    /\ UNCHANGED <<now, outsideGossip>>

\* run_receiver, lines 229-237: one turn of the loop; the datagram that
\* arrived is handled and the next turn arms a new sleep
RunReceiver_Recv(p) ==
    /\ HandlePacket(p)
    /\ rsleep' = now

\* run_receiver, lines 243-246: the sleep of this turn has run its second
RunReceiver_Sleep ==
    /\ now - rsleep >= SleepInterval
    /\ CheckPeerHealth
    /\ rsleep' = now

GossipInit ==
    /\ gpeers = [p \in GossipPeers \cup {GossipSelf} |-> NoHealth]
    /\ isolated = FALSE
    /\ gcheck = NoCheck
    /\ rsleep = 0

(* ------------------------------ threat dial ---------------------------- *)
\* the clients that post to /admin/threat-level
Admins == {"a1", "a2"}
\* the u8 levels a request body carries
Payloads == {3, 7, 200}
MaxThreatLevel == 10
InitialThreatLevel == 5
\* cerberus:threat_level has never been set
NoLevel == -1

\* ThreatLevel::new
ThreatLevelNew(level) == IF level < MaxThreatLevel THEN level ELSE MaxThreatLevel

NoSetCall == [pc |-> "idle", level |-> NoLevel, before |-> NoLevel, status |-> 0]

\* set_threat_level, first statement: the in-process value is overwritten
SetThreatLevel_Local(a, payload) ==
    /\ scall[a].pc \in {"idle", "done"}
    /\ threat_level' = ThreatLevelNew(payload)
    /\ scall' = [scall EXCEPT ![a] = [pc |-> "store", level |-> ThreatLevelNew(payload),
                                      before |-> threat_level, status |-> 0]]
    /\ UNCHANGED <<now, outsideThreat, threat_key>>

\* set_threat_level, second statement: SET cerberus:threat_level; the route
\* answers 200
SetThreatLevel_Store(a) ==
    /\ scall[a].pc = "store"
    /\ threat_key' = scall[a].level
    /\ scall' = [scall EXCEPT ![a].pc = "done", ![a].status = 200]
    /\ UNCHANGED <<now, outsideThreat, threat_level>>

\* the connection or the SET fails: set_threat_level returns the error and
\* the route answers 500
SetThreatLevel_StoreErr(a) ==
    /\ scall[a].pc = "store"
    /\ scall' = [scall EXCEPT ![a].pc = "done", ![a].status = StoreErrorStatus]
    /\ UNCHANGED <<now, outsideThreat, threat_level, threat_key>>

ThreatInit ==
    /\ threat_level = ThreatLevelNew(InitialThreatLevel)
    /\ threat_key = NoLevel
    /\ scall = [a \in Admins |-> NoSetCall]

(* ------------------------------ ammo box ------------------------------- *)
\* the maintainer task, and a task calling the pool's public operations
AmmoThreads == {"maint", "api"}
\* a CAPTCHA from generate_batch, and one a caller hands to push
Items == {"g", "u"}
NoItem == "none"
\* a spool file is named by the clock at the time of the dump
FileNames == 0..MaxTime
NoFile == <<>>
\* get_cpu_load, lines 381-385
CpuLoad == 10

\* history of a dump_to_disk call of the worker: the pool and the count of
\* successful pops when it was called, and the items it has popped
NoDump == [on |-> FALSE, before |-> <<>>, popped |-> 0, items |-> <<>>]

IdleThread == [pc |-> "idle", ret |-> "idle", hand |-> <<>>, pushed |-> 0,
               n |-> 0, batch |-> <<>>, entries |-> <<>>, loaded |-> 0,
               dump |-> NoDump]
NoRet == [calls |-> 0, op |-> "none", item |-> NoItem, back |-> NoItem]

\* a ring that never refuses an item
QueuePush_Unbounded(q, x) == [ok |-> TRUE, q |-> Append(q, x)]

\* ArrayQueue::push on the ring of ram_capacity slots (line 94)
QueuePush(q, x) ==
    IF Len(q) < RamCapacity THEN [ok |-> TRUE, q |-> Append(q, x)]
    ELSE [ok |-> FALSE, q |-> q]

\* ArrayQueue::pop
QueuePop(q) ==
    IF q # <<>> THEN [item |-> Head(q), q |-> Tail(q)]
    ELSE [item |-> NoItem, q |-> q]

\* counting every pop as served
PopStats_Served(st, item) == [st EXCEPT !.served = @ + 1]

\* pop, lines 126-130
PopStats(st, item) ==
    IF item # NoItem THEN [st EXCEPT !.served = @ + 1]
    ELSE [st EXCEPT !.pool_misses = @ + 1]

\* fill_percent, line 118: the quotient as a percentage, cut to a whole number
FillPercentOf(len, capacity) == (len * 100) \div capacity

FillPercent(len) == FillPercentOf(len, RamCapacity)

\* should_dump, lines 286-289
ShouldDump == now - last_dump > DumpInterval

RECURSIVE NamesFrom(_)
\* the names of the spool files from f on, oldest first (lines 188-196)
NamesFrom(f) ==
    IF f > MaxTime THEN <<>>
    ELSE (IF disk[f] # NoFile THEN <<f>> ELSE <<>>) \o NamesFrom(f + 1)

Generated(count) == [i \in 1..count |-> "g"]

Called(op, item, back) ==
    [calls |-> aret.calls + 1, op |-> op, item |-> item, back |-> back]

\* where a thread goes when the call it made returns
After(ret) ==
    IF ret = "mark" THEN [IdleThread EXCEPT !.pc = "mark_dumped"]
    ELSE IF ret = "stop" THEN [IdleThread EXCEPT !.pc = "stopped"]
    ELSE IdleThread

\* push_batch entered with a batch in hand
BeginPushBatch(batch, ret) ==
    [IdleThread EXCEPT !.pc = "push_batch", !.hand = batch, !.ret = ret]

\* dump_to_disk entered, lines 233-251
BeginDump(size, ret) ==
    IF size = 0 THEN After(ret)
    ELSE [IdleThread EXCEPT !.pc = "dump_pop", !.n = size, !.ret = ret,
                            !.dump = IF ret = "idle" THEN NoDump
                                     ELSE [on |-> TRUE, before |-> pool,
                                           popped |-> acount.popped,
                                           items |-> <<>>]]

\* load_from_disk entered, lines 180-198
BeginLoad(max_count) ==
    LET names == NamesFrom(0)
        entries == SubSeq(names, 1, IF Len(names) < max_count THEN Len(names)
                                    ELSE max_count) IN
    IF entries = <<>> THEN IdleThread
    ELSE [IdleThread EXCEPT !.pc = "load_read", !.entries = entries]

\* load_from_disk after an entry, lines 213-221
LoadNext(th, loaded) ==
    IF loaded >= LoadMax \/ Len(th.entries) = 1 THEN IdleThread
    ELSE [IdleThread EXCEPT !.pc = "load_read", !.entries = Tail(th.entries),
                            !.loaded = loaded]

LoadStats(th, loaded) ==
    IF loaded >= LoadMax \/ Len(th.entries) = 1
    THEN [astats EXCEPT !.loaded_from_disk = @ + loaded]
    ELSE astats

\* pop, lines 124-132
Pop ==
    /\ aret.calls < MaxAmmoCalls
    /\ LET r == QueuePop(pool) IN
        /\ pool' = r.q
        /\ astats' = PopStats(astats, r.item)
        /\ acount' = IF r.item # NoItem THEN [acount EXCEPT !.popped = @ + 1]
                     ELSE acount
        /\ aret' = Called("pop", NoItem, r.item)
    /\ UNCHANGED <<now, outsideAmmo, disk, last_dump, athread>>

\* push, lines 137-139
Push(x) ==
    /\ aret.calls < MaxAmmoCalls
    /\ LET r == QueuePush(pool, x) IN
        /\ pool' = r.q
        /\ acount' = IF r.ok THEN [acount EXCEPT !.pushed = @ + 1] ELSE acount
        /\ aret' = Called("push", x, IF r.ok THEN NoItem ELSE x)
    /\ UNCHANGED <<now, outsideAmmo, astats, disk, last_dump, athread>>

\* push_batch called, line 142
PushBatch(batch) ==
    /\ aret.calls < MaxAmmoCalls
    /\ athread["api"].pc = "idle"
    /\ athread' = [athread EXCEPT !["api"] = BeginPushBatch(batch, "idle")]
    /\ aret' = Called("push_batch", NoItem, NoItem)
    /\ UNCHANGED <<now, outsideAmmo, pool, astats, disk, last_dump, acount>>

\* push_batch, lines 144-151: one turn of the loop
PushBatch_Push(t) ==
    LET th == athread[t]
        r == QueuePush(pool, Head(th.hand))
        pushed == th.pushed + (IF r.ok THEN 1 ELSE 0) IN
    /\ th.pc = "push_batch"
    /\ pool' = r.q
    /\ acount' = IF r.ok THEN [acount EXCEPT !.pushed = @ + 1] ELSE acount
    /\ athread' = [athread EXCEPT ![t] =
           IF r.ok /\ Len(th.hand) > 1
           THEN [th EXCEPT !.hand = Tail(th.hand), !.pushed = pushed]
           ELSE IF th.ret = "load"
           THEN [th EXCEPT !.pc = "load_remove", !.hand = <<>>, !.pushed = pushed]
           ELSE After(th.ret)]
    /\ UNCHANGED <<now, outsideAmmo, astats, disk, last_dump, aret>>

\* load_from_disk called, line 180
LoadFromDisk ==
    /\ aret.calls < MaxAmmoCalls
    /\ athread["api"].pc = "idle"
    /\ athread' = [athread EXCEPT !["api"] = BeginLoad(LoadMax)]
    /\ aret' = Called("load_from_disk", NoItem, NoItem)
    /\ UNCHANGED <<now, outsideAmmo, pool, astats, disk, last_dump, acount>>

\* load_batch_file, lines 225-227: the file is read, or is gone
LoadFromDisk_Read(t) ==
    LET th == athread[t]
        f == Head(th.entries) IN
    /\ th.pc = "load_read"
    /\ IF disk[f] # NoFile
       THEN /\ athread' = [athread EXCEPT ![t] =
                   [th EXCEPT !.pc = "push_batch", !.hand = disk[f], !.ret = "load",
                              !.pushed = 0]]
            /\ astats' = astats
       ELSE /\ athread' = [athread EXCEPT ![t] = LoadNext(th, th.loaded)]
            /\ astats' = LoadStats(th, th.loaded)
    /\ UNCHANGED <<now, outsideAmmo, pool, disk, last_dump, acount, aret>>

\* load_from_disk, lines 202-211: load_batch_file returns an error (the read
\* or the deserialisation failed); a warning is logged and the file is kept
LoadFromDisk_ReadErr(t) ==
    LET th == athread[t] IN
    /\ th.pc = "load_read"
    /\ disk[Head(th.entries)] # NoFile
    /\ athread' = [athread EXCEPT ![t] = LoadNext(th, th.loaded)]
    /\ astats' = LoadStats(th, th.loaded)
    /\ UNCHANGED <<now, outsideAmmo, pool, disk, last_dump, acount, aret>>

\* load_from_disk, lines 202-218: the file just loaded is deleted
LoadFromDisk_Remove(t) ==
    LET th == athread[t]
        loaded == th.loaded + th.pushed IN
    /\ th.pc = "load_remove"
    /\ disk' = [disk EXCEPT ![Head(th.entries)] = NoFile]
    /\ athread' = [athread EXCEPT ![t] = LoadNext(th, loaded)]
    /\ astats' = LoadStats(th, loaded)
    /\ UNCHANGED <<now, outsideAmmo, pool, last_dump, acount, aret>>

\* dump_to_disk called, line 233
DumpToDisk(size) ==
    /\ aret.calls < MaxAmmoCalls
    /\ athread["api"].pc = "idle"
    /\ athread' = [athread EXCEPT !["api"] = BeginDump(size, "idle")]
    /\ aret' = Called("dump_to_disk", NoItem, NoItem)
    /\ UNCHANGED <<now, outsideAmmo, pool, astats, disk, last_dump, acount>>

\* dump_to_disk, lines 241-251: one turn of the pop loop
DumpToDisk_Pop(t) ==
    LET th == athread[t]
        r == QueuePop(pool) IN
    /\ th.pc = "dump_pop"
    /\ pool' = r.q
    /\ acount' = IF r.item # NoItem THEN [acount EXCEPT !.popped = @ + 1]
                 ELSE acount
    /\ athread' = [athread EXCEPT ![t] =
           IF r.item # NoItem
           THEN [th EXCEPT !.batch = Append(@, r.item), !.n = @ - 1,
                           !.dump.items = IF th.dump.on THEN Append(@, r.item)
                                          ELSE @,
                           !.pc = IF th.n = 1 THEN "dump_write" ELSE "dump_pop"]
           ELSE IF th.batch = <<>> THEN After(th.ret)
           ELSE [th EXCEPT !.pc = "dump_write", !.n = 0]]
    /\ UNCHANGED <<now, outsideAmmo, astats, disk, last_dump, aret>>

\* the batch is written and not pushed back: a move
DumpToDisk_Move(t) ==
    LET th == athread[t] IN
    /\ th.pc = "dump_write"
    /\ disk' = [disk EXCEPT ![now] = th.batch]
    /\ astats' = [astats EXCEPT !.dumped_to_disk = @ + Len(th.batch)]
    /\ athread' = [athread EXCEPT ![t] = After(th.ret)]
    /\ UNCHANGED <<now, outsideAmmo, pool, last_dump, acount, aret>>

\* dump_to_disk, lines 253-266: the batch is written, then pushed back
DumpToDisk_Write(t) ==
    LET th == athread[t] IN
    /\ th.pc = "dump_write"
    /\ disk' = [disk EXCEPT ![now] = th.batch]
    /\ astats' = [astats EXCEPT !.dumped_to_disk = @ + Len(th.batch)]
    /\ athread' = [athread EXCEPT ![t] =
           [BeginPushBatch(th.batch, th.ret) EXCEPT !.dump = th.dump]]
    /\ UNCHANGED <<now, outsideAmmo, pool, last_dump, acount, aret>>

\* dump_to_disk, lines 255 and 259: serialize or write returns an error and
\* the ? operator returns it, dropping the batch; maintain_ammo_box returns
\* the error before mark_dumped (line 371), the shutdown arm logs it and
\* breaks (lines 328-331)
DumpToDisk_WriteErr(t) ==
    LET th == athread[t] IN
    /\ th.pc = "dump_write"
    /\ athread' = [athread EXCEPT ![t] =
           IF th.ret = "stop" THEN After("stop") ELSE IdleThread]
    /\ UNCHANGED <<now, outsideAmmo, pool, astats, disk, last_dump, acount, aret>>

NoPlan == [do |-> "nothing", n |-> 0]

\* the surplus band entered at 95 percent
MaintainPlan_SurplusAt95(fill_pct, cpu_load, should_dump) ==
    IF fill_pct < 10
    THEN (IF cpu_load > 80 THEN [do |-> "load", n |-> LoadMax]
          ELSE [do |-> "generate", n |-> EmergencyBatch])
    ELSE IF fill_pct < 80
    THEN (IF cpu_load < 50 THEN [do |-> "generate", n |-> NormalBatch] ELSE NoPlan)
    ELSE IF fill_pct >= 95 /\ cpu_load < 20
    THEN (IF should_dump THEN [do |-> "dump", n |-> DumpBatch] ELSE NoPlan)
    ELSE NoPlan

\* the normal band reaching up to 97 percent
MaintainPlan_NormalBelow97(fill_pct, cpu_load, should_dump) ==
    IF fill_pct < 10
    THEN (IF cpu_load > 80 THEN [do |-> "load", n |-> LoadMax]
          ELSE [do |-> "generate", n |-> EmergencyBatch])
    ELSE IF fill_pct < 97
    THEN (IF cpu_load < 50 THEN [do |-> "generate", n |-> NormalBatch] ELSE NoPlan)
    ELSE NoPlan

\* maintain_ammo_box, lines 347-375: the branch taken
MaintainPlan(fill_pct, cpu_load, should_dump) ==
    IF fill_pct < 10
    THEN (IF cpu_load > 80 THEN [do |-> "load", n |-> LoadMax]
          ELSE [do |-> "generate", n |-> EmergencyBatch])
    ELSE IF fill_pct < 80
    THEN (IF cpu_load < 50 THEN [do |-> "generate", n |-> NormalBatch] ELSE NoPlan)
    ELSE IF fill_pct > 95 /\ cpu_load < 20
    THEN (IF should_dump THEN [do |-> "dump", n |-> DumpBatch] ELSE NoPlan)
    ELSE NoPlan

\* maintain_ammo_box, lines 338-378
MaintainTick ==
    LET plan == MaintainPlan(FillPercent(Len(pool)), CpuLoad, ShouldDump) IN
    /\ aret.calls < MaxAmmoCalls
    /\ athread["maint"].pc = "idle"
    /\ athread' = [athread EXCEPT !["maint"] =
           CASE plan.do = "load" -> BeginLoad(plan.n)
             [] plan.do = "generate" -> BeginPushBatch(Generated(plan.n), "idle")
             [] plan.do = "dump" -> BeginDump(plan.n, "mark")
             [] OTHER -> IdleThread]
    /\ astats' = [astats EXCEPT !.generated =
                     @ + (IF plan.do = "generate" THEN plan.n ELSE 0)]
    /\ aret' = Called("maintain", NoItem, NoItem)
    /\ UNCHANGED <<now, outsideAmmo, pool, disk, last_dump, acount>>

NoBand == [decided |-> FALSE, len |-> 0, capacity |-> 1, should_dump |-> FALSE,
           plan |-> NoPlan]

\* maintain_ammo_box, lines 339-344 and 347-375, on a pool of any capacity
MaintainDecide ==
    /\ ~band.decided
    /\ band' = [band EXCEPT !.decided = TRUE,
                            !.plan = MaintainPlan(FillPercentOf(band.len, band.capacity),
                                                  CpuLoad, band.should_dump)]
    /\ UNCHANGED <<now, coreVars, crossNodeVars, gossipVars, threatVars, routeVars,
                   pool, astats, disk, last_dump, athread, acount, aret, proc>>

\* mark_dumped, lines 292-295
MarkDumped ==
    /\ athread["maint"].pc = "mark_dumped"
    /\ last_dump' = now
    /\ athread' = [athread EXCEPT !["maint"] = IdleThread]
    /\ UNCHANGED <<now, outsideAmmo, pool, astats, disk, acount, aret>>

\* ammo_box_worker on the shutdown signal, lines 325-331
Shutdown ==
    /\ aret.calls < MaxAmmoCalls
    /\ athread["maint"].pc = "idle"
    /\ athread' = [athread EXCEPT !["maint"] = BeginDump(Len(pool), "stop")]
    /\ aret' = Called("shutdown", NoItem, NoItem)
    /\ UNCHANGED <<now, outsideAmmo, pool, astats, disk, last_dump, acount>>

\* main, lines 102-107: ctrl_c arrives and the shutdown signal is broadcast
ShutdownSignal ==
    /\ proc = "running"
    /\ proc' = "signalled"
    /\ UNCHANGED <<now, coreVars, crossNodeVars, gossipVars, threatVars, routeVars,
                   pool, astats, disk, last_dump, athread, acount, aret, band>>

\* main, lines 109-115: axum::serve returns and main returns; the runtime is
\* dropped and the spawned worker, whose JoinHandle was dropped at line 87,
\* is cancelled where it is
MainReturn ==
    /\ proc = "signalled"
    /\ proc' = "exited"
    /\ UNCHANGED <<now, coreVars, crossNodeVars, gossipVars, threatVars, routeVars,
                   pool, astats, disk, last_dump, athread, acount, aret, band>>

AmmoWorkerInit ==
    /\ proc = "running"
    /\ astats = [served |-> 0, generated |-> 0, loaded_from_disk |-> 0,
                 dumped_to_disk |-> 0, pool_misses |-> 0]
    /\ disk = [f \in FileNames |-> NoFile]
    /\ last_dump = 0
    /\ athread = [t \in AmmoThreads |-> IdleThread]
    /\ aret = NoRet

AmmoPoolInit ==
    /\ pool = <<>>
    /\ acount = [pushed |-> 0, popped |-> 0]
    /\ AmmoWorkerInit

AmmoInit == AmmoPoolInit /\ band = NoBand

(* ------------------------------ POST /verify, GET /challenge ----------- *)
\* VerifyForm (routes/mod.rs lines 159-163) has the fields challenge_id and
\* answer; a circuit_id the client sends is kept here as history only
NoForm == [open |-> FALSE, circuit_id |-> NoCid]
NoWrongs == [n |-> 0, at |-> 0]
\* after and since are history: the wrong submissions of the circuit answered
\* in a row before this request, and the time since the last of them
NoChal == [pc |-> "idle", cid |-> NoCid, resp |-> 0, reason |-> "", after |-> 0,
           since |-> 0]

\* create_router, line 32: POST /verify is handled by verify_form
VerifyForm_Post(v, circ) ==
    /\ ~vform[v].open
    /\ vcall[v].pc = "idle"
    /\ wrongs[circ].n < MaxFailCount
    /\ vform' = [vform EXCEPT ![v] = [open |-> TRUE, circuit_id |-> circ]]
    /\ UNCHANGED <<now, coreVars, crossNodeVars, gossipVars, threatVars, ammoVars, wrongs, chal, page>>

\* verify_form, lines 172-175: verify is called with circuit_id None
VerifyForm_Verify(v, c, ans) ==
    /\ vform[v].open
    /\ Verify_Get(v, c, ans)

\* verify_form, lines 177-197: the redirect, or the page with an error; the
\* circuit tracker is not called
VerifyForm_Respond(v) ==
    LET circ == vform[v].circuit_id
        success == vcall[v].result = "success" IN
    /\ vform[v].open
    /\ vcall[v].pc = "done"
    /\ vform' = [vform EXCEPT ![v] = NoForm]
    /\ vcall' = IF success THEN vcall ELSE [vcall EXCEPT ![v] = IdleCall]
    /\ wrongs' = [wrongs EXCEPT ![circ] =
                     IF success THEN NoWrongs ELSE [n |-> @.n + 1, at |-> now]]
    /\ UNCHANGED <<now, outsideRoute, chal, page>>

\* get_challenge, lines 36-50: is_allowed; a denial answers 403 with the reason
GetChallenge_IsAllowed(circ) ==
    LET allowed == IsAllowed(circuit[circ])
        q == [NoChal EXCEPT !.cid = circ, !.after = wrongs[circ].n,
                            !.since = now - wrongs[circ].at] IN
    /\ chal.pc \in {"idle", "done"}
    /\ chal' = IF allowed[1] THEN [q EXCEPT !.pc = "generate"]
               ELSE [q EXCEPT !.pc = "done", !.resp = 403, !.reason = allowed[2]]
    /\ UNCHANGED <<now, coreVars, crossNodeVars, gossipVars, threatVars, ammoVars, vform, wrongs, page>>

\* get_challenge, lines 52-66: generate stores a challenge under an id of its
\* own, and the challenge is returned with 200
GetChallenge_Generate ==
    /\ chal.pc = "generate"
    /\ chal' = [chal EXCEPT !.pc = "done", !.resp = 200]
    /\ UNCHANGED <<now, coreVars, crossNodeVars, gossipVars, threatVars, ammoVars, vform, wrongs, page>>

\* circuit is history: the circuit the client's request came over, and seen,
\* the status of that circuit's record when the request arrived
NoPage == [pc |-> "idle", circuit |-> NoCid, seen |-> "none", resp |-> 0]

\* create_router, line 23, and serve_captcha_page, lines 201-203: GET / takes
\* the application state only, no circuit id
ServeCaptchaPage(circ) ==
    /\ page.pc = "idle"
    /\ page' = [pc |-> "generate", circuit |-> circ,
                seen |-> IF circuit[circ].present THEN circuit[circ].status ELSE "absent",
                resp |-> 0]
    /\ UNCHANGED <<now, coreVars, crossNodeVars, gossipVars, threatVars, ammoVars, vform, wrongs, chal>>

\* serve_captcha_page_inner, lines 216-220: generate, with circuit_id None
ServeCaptchaPage_Generate(c, ans, diff) ==
    /\ page.pc = "generate"
    /\ Generate_Begin(c, ans, diff)

\* serve_captcha_page_inner, lines 221 on: the page is rendered around the
\* challenge generate stored
ServeCaptchaPage_Render(c) ==
    /\ page.pc = "generate"
    /\ issued[c].state = "stored"
    /\ page' = [page EXCEPT !.pc = "done", !.resp = 200]
    /\ UNCHANGED <<now, coreVars, crossNodeVars, gossipVars, threatVars, ammoVars, vform, wrongs, chal>>

RouteInit ==
    /\ vform = [v \in VerifyIds |-> NoForm]
    /\ wrongs = [c \in Circuits |-> NoWrongs]
    /\ chal = NoChal
    /\ page = NoPage

OtherInit == CrossNodeInit /\ GossipInit /\ ThreatInit /\ AmmoInit /\ RouteInit

(* ------------------------------ the clock ------------------------------ *)
\* one tick; the store drops the keys whose TTL ran out
Tick ==
    /\ now < MaxTime
    /\ now' = now + 1
    /\ captcha' = Expire(captcha, now + 1, NoChallenge)
    /\ passport' = Expire(passport, now + 1, NoPassport)
    /\ circuit' = Expire(circuit, now + 1, NoCircuit)
    /\ ratelimit' = ExpireRate(ratelimit, now + 1)
    /\ hist' = [c \in Circuits |->
                   IF hist[c].calls > 0 /\ circuit[c].present /\ ~circuit'[c].present
                   THEN [hist[c] EXCEPT !.evicted = TRUE]
                   ELSE hist[c]]
    /\ UNCHANGED <<issued, vcall, done, minted, req, tcall, otherVars>>

(* ------------------------------ specifications ------------------------- *)
CoreInit ==
    /\ now = 0
    /\ issued = [c \in ChalIds |-> NotIssued]
    /\ captcha = [c \in ChalIds |-> NoChallenge]
    /\ passport = [t \in Tokens |-> NoPassport]
    /\ vcall = [v \in VerifyIds |-> IdleCall]
    /\ req = [r \in ReqIds |-> IdleReq]
    /\ minted = [t \in Tokens |-> 0 - 1]
    /\ done = [c \in ChalIds |-> FALSE]
    /\ circuit = [c \in Circuits |-> NoCircuit]
    /\ tcall = [w \in Workers |-> IdleWorker]
    /\ hist = [c \in Circuits |-> NoHist]
    /\ ratelimit = [c \in Circuits |-> NoRate]

Init == CoreInit /\ OtherInit

\* challenge issue and verify, any number of calls in flight
Next ==
    \/ \E c \in ChalIds, a \in GenAnswers, d \in Difficulties : Generate_Begin(c, a, d)
    \/ \E c \in ChalIds : Generate_Store(c)
    \/ \E v \in VerifyIds, c \in ChalIds, a \in UserAnswers : Verify_Get(v, c, a)
    \/ \E v \in VerifyIds : Verify_Del(v)
    \/ \E v \in VerifyIds : Verify_Check(v)
    \/ \E v \in VerifyIds : Verify_Mint(v)
    \/ Tick

Spec == Init /\ [][Next]_vars

\* one verify mints a passport; /validate requests without circuit_id check it
PassportNext ==
    \/ \E a \in GenAnswers, d \in Difficulties : Generate_Begin(1, a, d)
    \/ Generate_Store(1)
    \/ \E a \in UserAnswers : Verify_Get(1, 1, a)
    \/ Verify_Del(1)
    \/ Verify_Check(1)
    \/ Verify_Mint(1)
    \/ \E r \in 1..MaxChecks, t \in Tokens : Validate_NoCircuit(r, t)
    \/ \E r \in 1..MaxChecks : ValidatePassport_Ttl(r)
    \/ \E r \in 1..MaxChecks : ValidatePassport_Expire(r)
    \/ Tick

SpecPassport == Init /\ [][PassportNext]_vars

(* ------------------------------ claims: CAPTCHA and passport ----------- *)
\* C1: for every challenge id, at most one verify call returns success (and
\* mints a passport), however the calls' GET and DEL steps interleave.
C1_AtMostOneSuccess ==
    \A c \in ChalIds :
        Cardinality({v \in VerifyIds : vcall[v].cid = c /\ vcall[v].result = "success"}) <= 1

\* C2: a verify that starts after some verify on the same challenge has
\* returned a result finds no challenge and returns "Challenge expired or
\* invalid", whatever answer it carries.
C2_LaterVerifyInvalid ==
    \A v \in VerifyIds :
        vcall[v].late =>
            /\ vcall[v].pc # "mint"
            /\ vcall[v].pc \in {"del", "check"} => ~vcall[v].stored.present
            /\ vcall[v].pc = "done" => vcall[v].result = "invalid"

C2_Witness ==
    \E v \in VerifyIds :
        /\ vcall[v].late /\ vcall[v].correct
        /\ vcall[v].pc = "done" /\ vcall[v].result = "invalid"

\* C3: a verify that starts after the challenge's expires_at never succeeds
\* and never mints a passport, whatever answer it carries.
C3_NoSuccessAfterExpiry ==
    \A v \in VerifyIds :
        vcall[v].overdue => vcall[v].pc # "mint" /\ vcall[v].result # "success"

\* the stored key outlived expires_at and the correct answer was refused
C3_Witness ==
    \E v \in VerifyIds :
        /\ vcall[v].overdue /\ vcall[v].correct
        /\ vcall[v].pc = "done" /\ vcall[v].result = "expired"

\* C4: a /validate without circuit_id answers 200 exactly when the token was
\* minted less than passport_ttl before the request's EXISTS; validate calls
\* never move the moment the passport stops being valid.
C4_ValidIffFresh ==
    \A r \in ReqIds :
        (req[r].pc = "done" /\ req[r].cid = NoCid) =>
            ((req[r].resp = 200) <=> req[r].fresh)

\* the circuit tracker, one call at a time, on one circuit (the records of
\* different circuits are independent keys)
TrackerSeqNext ==
    \/ \E op \in TrackerOps : GetOrCreate_Get("w1", op, "C1")
    \/ GetOrCreate_Save("w1")
    \/ RecordFailure_Save("w1")
    \/ RecordSuccess_Save("w1")
    \/ Ban_Save("w1")
    \/ Tick

SpecTrackerSeq == Init /\ [][TrackerSeqNext]_vars

\* a passport minted at time 0 (the state a successful verify leaves)
MintedPassport == [present |-> TRUE, key_exp |-> PassportTtl]

InitRateLimit ==
    /\ now = 0
    /\ issued = [c \in ChalIds |-> NotIssued]
    /\ captcha = [c \in ChalIds |-> NoChallenge]
    /\ passport = [t \in Tokens |-> IF t = 1 THEN MintedPassport ELSE NoPassport]
    /\ vcall = [v \in VerifyIds |-> IdleCall]
    /\ req = [r \in ReqIds |-> IdleReq]
    /\ minted = [t \in Tokens |-> IF t = 1 THEN 0 ELSE 0 - 1]
    /\ done = [c \in ChalIds |-> FALSE]
    /\ circuit = [c \in Circuits |-> NoCircuit]
    /\ tcall = [w \in Workers |-> IdleWorker]
    /\ hist = [c \in Circuits |-> NoHist]
    /\ ratelimit = [c \in Circuits |-> NoRate]
    /\ OtherInit

\* /validate requests of one circuit carrying a minted token
RateLimitNext ==
    \/ \E r \in ReqIds : Validate_IsAllowed(r, 1, "C1")
    \/ \E r \in ReqIds : CheckRateLimit_Incr(r)
    \/ \E r \in ReqIds : CheckRateLimit_Expire(r)
    \/ \E r \in ReqIds : ValidatePassport_Exists(r)
    \/ \E r \in ReqIds : ValidatePassport_Ttl(r)
    \/ \E r \in ReqIds : ValidatePassport_Expire(r)
    \/ Tick

SpecRateLimit == InitRateLimit /\ [][RateLimitNext]_vars

(* ------------------------------ claims: circuit tracker ---------------- *)
OnlyFailures(c) == hist[c].succs = 0 /\ hist[c].bans = 0

\* C5: counting from a call that found no record, after max_failed_attempts
\* sequential record_failure calls (and no record_success or ban) the stored
\* status is SoftLocked and is_allowed denies with "Too many failed
\* attempts..."; after fewer, is_allowed allows.
C5_SoftLockThreshold ==
    \A c \in Circuits :
        OnlyFailures(c) =>
            /\ hist[c].fails < MaxFailedAttempts => IsAllowed(circuit[c]) = <<TRUE, "">>
            /\ (hist[c].fails = MaxFailedAttempts /\ circuit[c].present) =>
                    /\ circuit[c].status = "SoftLocked"
                    /\ IsAllowed(circuit[c]) =
                           <<FALSE, "Too many failed attempts. Try again later.">>

C5_Witness ==
    \E c \in Circuits :
        /\ OnlyFailures(c) /\ hist[c].fails = MaxFailedAttempts
        /\ circuit[c].present /\ circuit[c].status = "SoftLocked"
        /\ ~IsAllowed(circuit[c])[1]

\* C6: the record a record_success saves, when the status it read is not
\* Banned, has failed_attempts = 0 and status Verified or Vip.
C6_SuccessResets ==
    [][\A w \in Workers :
         (RecordSuccess_Save(w) /\ tcall[w].info.status # "Banned") =>
             /\ circuit'[tcall[w].cid].present
             /\ circuit'[tcall[w].cid].failed_attempts = 0
             /\ circuit'[tcall[w].cid].status \in {"Verified", "Vip"}]_vars

\* a success on a soft-locked circuit has reset it
C6_Witness ==
    \E c \in Circuits :
        /\ hist[c].last = "record_success" /\ hist[c].bans = 0
        /\ hist[c].fails >= MaxFailedAttempts
        /\ circuit[c].present /\ circuit[c].failed_attempts = 0
        /\ circuit[c].status = "Verified"

\* C7 as stated: a record whose successful_solves is >= 5 is written with
\* status Vip, whichever operation writes it.
C7_VipOnEveryWrite ==
    \A c \in Circuits :
        (circuit[c].present /\ circuit[c].successful_solves >= VipSolves) =>
            circuit[c].status = "Vip"

\* C7 amended: the k-th sequential record_success since a call found no record
\* saves successful_solves = k, with status Vip when k >= 5 and Verified
\* when k < 5.
C7_VipByRecordSuccess ==
    \A c \in Circuits :
        (hist[c].last = "record_success" /\ circuit[c].present) =>
            /\ circuit[c].successful_solves = hist[c].succs
            /\ circuit[c].status =
                   IF hist[c].succs >= VipSolves THEN "Vip" ELSE "Verified"

C7_Witness ==
    \E c \in Circuits :
        /\ hist[c].last = "record_success" /\ hist[c].succs = VipSolves
        /\ circuit[c].present /\ circuit[c].status = "Vip"

\* the record max_failed_attempts record_failure calls at time 0 leave
SoftLockedRecord ==
    [present |-> TRUE, status |-> "SoftLocked", failed_attempts |-> MaxFailedAttempts,
     successful_solves |-> 0, key_exp |-> SoftLockDuration]

\* the counter max_requests_per_minute requests at time 0 leave
FullCounter ==
    [present |-> TRUE, count |-> MaxRequestsPerMinute, has_ttl |-> TRUE,
     key_exp |-> RateWindow, epoch |-> 1]

\* token 1 is minted; circuit C2 is unknown or soft-locked, and its counter
\* is absent or at the limit
InitValidate ==
    /\ now = 0
    /\ issued = [c \in ChalIds |-> NotIssued]
    /\ captcha = [c \in ChalIds |-> NoChallenge]
    /\ passport = [t \in Tokens |-> IF t = 1 THEN MintedPassport ELSE NoPassport]
    /\ vcall = [v \in VerifyIds |-> IdleCall]
    /\ req = [r \in ReqIds |-> IdleReq]
    /\ minted = [t \in Tokens |-> IF t = 1 THEN 0 ELSE 0 - 1]
    /\ done = [c \in ChalIds |-> FALSE]
    /\ \E rec \in {NoCircuit, SoftLockedRecord} :
          /\ circuit = [c \in Circuits |-> IF c = "C2" THEN rec ELSE NoCircuit]
          /\ hist = [c \in Circuits |->
                        IF c = "C2" /\ rec.present
                        THEN [NoHist EXCEPT !.fails = MaxFailedAttempts,
                                            !.last = "record_failure"]
                        ELSE NoHist]
    /\ tcall = [w \in Workers |-> IdleWorker]
    /\ \E cnt \in {NoRate, FullCounter} :
          ratelimit = [c \in Circuits |-> IF c = "C2" THEN cnt ELSE NoRate]
    /\ OtherInit

\* /validate requests of circuit C2, one at a time, with or without a minted
\* token, and admin bans of C2 that start before one of them has returned
ValidateNext ==
    \/ \E w \in Workers : hist["C2"].bans = 0 /\ GetOrCreate_Get(w, "ban", "C2")
    \/ \E w \in Workers : GetOrCreate_Save(w)
    \/ \E w \in Workers : Ban_Save(w)
    \/ \E r \in 1..MaxChecks, t \in {NoToken, 1} :
          InFlight = {} /\ Validate_IsAllowed(r, t, "C2")
    \/ \E r \in 1..MaxChecks : CheckRateLimit_Incr(r)
    \/ \E r \in 1..MaxChecks : CheckRateLimit_Expire(r)
    \/ \E r \in 1..MaxChecks : ValidatePassport_Exists(r)
    \/ \E r \in 1..MaxChecks : ValidatePassport_Ttl(r)
    \/ \E r \in 1..MaxChecks : ValidatePassport_Expire(r)
    \/ Tick

SpecValidate == InitValidate /\ [][ValidateNext]_vars

(* ------------------------------ claims: /validate ---------------------- *)
Answered(c) == {r \in ReqIds : req[r].pc = "done" /\ req[r].cid = c}

\* C8 as stated: of the /validate requests of one circuit whose INCR falls
\* inside any window of RateWindow ticks, at most max_requests_per_minute
\* answer 200.
C8_AnyWindow ==
    \A c \in Circuits, w \in 0..MaxTime :
        Cardinality({r \in Answered(c) : /\ req[r].resp = 200
                                         /\ req[r].rl_at \in w..(w + RateWindow - 1)})
            <= MaxRequestsPerMinute

\* C8 amended: of the /validate requests of one circuit counted by one
\* incarnation of the ratelimit key (from the INCR that creates it until it
\* expires), at most max_requests_per_minute answer 200; every request the
\* tracker admitted whose count is above the limit answers 429, and one whose
\* count is within the limit and whose token exists answers 200.
C8_PerCounterKey ==
    \A c \in Circuits :
        /\ \A e \in 1..MaxRequests :
               Cardinality({r \in Answered(c) : req[r].resp = 200 /\ req[r].epoch = e})
                   <= MaxRequestsPerMinute
        /\ \A r \in Answered(c) :
               /\ req[r].count > MaxRequestsPerMinute => req[r].resp = 429
               /\ (req[r].count \in 1..MaxRequestsPerMinute /\ req[r].exists)
                      => req[r].resp = 200

\* one key counted max_requests_per_minute requests answered 200 and one more
\* answered 429
C8_Witness ==
    \E c \in Circuits, e \in 1..MaxRequests :
        /\ Cardinality({r \in Answered(c) : req[r].resp = 200 /\ req[r].epoch = e})
               = MaxRequestsPerMinute
        /\ \E r \in Answered(c) :
               req[r].epoch = e /\ req[r].resp = 429 /\ passport[req[r].token].present

\* C9: a /validate with circuit_id answers 403 when the record it read is
\* Banned or SoftLocked; otherwise 429 when its count is above the limit;
\* otherwise 401 when its token names no stored passport; otherwise 200.
C9_Precedence ==
    \A r \in ReqIds :
        (req[r].pc = "done" /\ req[r].cid # NoCid) =>
            req[r].resp =
                IF req[r].seen \in {"Banned", "SoftLocked"} THEN 403
                ELSE IF req[r].count > MaxRequestsPerMinute THEN 429
                ELSE IF ~req[r].exists THEN 401
                ELSE 200

\* 403 went to a request with a live passport and no counter exceeded, and
\* 429 to a request whose token names no passport
C9_Witness ==
    \E r1, r2 \in ReqIds :
        /\ req[r1].pc = "done" /\ req[r1].resp = 403 /\ req[r1].token = 1
        /\ passport[1].present /\ ~ratelimit[req[r1].cid].present
        /\ req[r2].pc = "done" /\ req[r2].resp = 429 /\ req[r2].token = NoToken

\* C10: from the return of an admin ban of a circuit until the record that
\* ban saved would run out, the stored status is Banned and every /validate
\* of the circuit that starts in that time answers 403.
C10_BanHolds ==
    \A c \in Circuits :
        /\ now < hist[c].ban_exp => circuit[c].present /\ circuit[c].status = "Banned"
        /\ \A r \in Answered(c) : req[r].after_ban => req[r].resp = 403

\* a node mints a cross-node token, a client rewrites it, the validating node
\* files peer keys; then the validating node, of any node_id, validates once
CrossNodeNext ==
    \/ \E i, t \in NodeIds : Mint(i, t)
    \/ \E tok \in xminted : \E tok2 \in Alterations(tok) : Alter(tok, tok2)
    \/ \E i, k \in NodeIds : AddPeerKey(i, k)
    \/ \E n \in NodeIds, tok \in KnownTokens : Validate(n, tok)
    \/ ~xcall.called /\ Tick

SpecCrossNode == Init /\ [][CrossNodeNext]_vars

(* ------------------------------ claims: Banned is terminal ------------- *)
\* C11: no step takes a stored Banned record to a stored record of another
\* status; a Banned record ends only when its TTL runs out.
C11_BannedTerminal ==
    [][\A c \in Circuits :
         (circuit[c].present /\ circuit[c].status = "Banned" /\ circuit'[c].present)
             => circuit'[c].status = "Banned"]_vars

\* packets arrive from the configured peers and the node itself; the receiver
\* runs its periodic check
GossipNext ==
    \/ \E p \in Datagrams : HandlePacket(p) /\ UNCHANGED rsleep
    \/ CheckPeerHealth /\ UNCHANGED rsleep
    \/ Tick

SpecGossip == Init /\ [][GossipNext]_vars

(* ------------------------------ claims: cross-node passport ------------ *)
\* C12: a token minted by node I for target T, validated while unexpired on
\* the node whose node_id is T and whose peer_keys files I's key under I, is
\* accepted, and the result carries target T and issuer I.
C12_MintedAccepted ==
    (/\ xcall.called /\ xcall.tok \in xminted
     /\ xcall.node = xcall.tok.target
     /\ peer_keys[xcall.tok.issuer] = xcall.tok.issuer
     /\ ~IsExpired(xcall.tok, xcall.at))
        => /\ xcall.result.ok
           /\ xcall.result.target = xcall.tok.target
           /\ xcall.result.issuer = xcall.tok.issuer

\* C12 amended: the same, for node ids that contain no ':'.
C12_ColonFreeAccepted ==
    (/\ xcall.called /\ xcall.tok \in xminted
     /\ Len(xcall.tok.target) = 1 /\ Len(xcall.tok.issuer) = 1
     /\ xcall.node = xcall.tok.target
     /\ peer_keys[xcall.tok.issuer] = xcall.tok.issuer
     /\ ~IsExpired(xcall.tok, xcall.at))
        => /\ xcall.result.ok
           /\ xcall.result.target = xcall.tok.target
           /\ xcall.result.issuer = xcall.tok.issuer

\* a token of another node was accepted some time after it was minted
C12_Witness ==
    /\ xcall.called /\ xcall.tok \in xminted /\ xcall.result.ok
    /\ xcall.tok.issuer # xcall.node
    /\ xcall.result.target = xcall.node /\ xcall.result.issuer = xcall.tok.issuer
    /\ xcall.at > 0 /\ xcall.at < xcall.tok.exp.val

\* C13: validate on node N rejects every token whose target is not N,
\* whatever its expiry, issuer and signature.
C13_WrongTargetRejected ==
    (xcall.called /\ xcall.tok.target # xcall.node) => ~xcall.result.ok

\* the node refused an unexpired token it minted itself for another node,
\* though it files its own key
C13_Witness ==
    /\ xcall.called /\ xcall.tok \in xminted
    /\ xcall.tok.issuer = xcall.node /\ peer_keys[xcall.node] = xcall.node
    /\ xcall.tok.target # xcall.node /\ Len(xcall.tok.target) = 1
    /\ ~IsExpired(xcall.tok, xcall.at)
    /\ xcall.result = Rejected("Token not for this node")

\* C14: validate accepts a token only when its expiry is strictly greater
\* than the time of the call.
C14_ExpiryStrict ==
    (xcall.called /\ xcall.result.ok) => xcall.result.expiry > xcall.at

\* C15: validate accepts no token other than one a node minted: a token
\* with a rewritten target, expiry, issuer or signature is rejected, and so
\* is one whose issuer has no peer key.
C15_OnlyMintedAccepted ==
    (xcall.called /\ xcall.result.ok) =>
        /\ xcall.tok \in xminted
        /\ peer_keys[xcall.tok.issuer] # NoKey

(* ------------------------------ claims: gossip ------------------------- *)
\* C16: with n configured peers, a health check leaves is_isolated() true
\* when the peers it finds timed out are at least isolation_threshold * n,
\* and false when they are fewer.
C16_IsolatedByConfigured ==
    gcheck.done =>
        (gcheck.isolated <=>
            gcheck.timed_out * ThresholdDen >= ThresholdNum * Cardinality(GossipPeers))

\* C16 amended: with n the number of peers in the peer map (those a packet
\* has arrived from), a health check leaves is_isolated() true when the peers
\* it finds timed out are at least isolation_threshold * n and false when
\* they are fewer; with an empty peer map it leaves the flag as it was.
C16_IsolatedByKnown ==
    gcheck.done =>
        /\ gcheck.total > 0 =>
               (gcheck.isolated <=>
                   gcheck.timed_out * ThresholdDen >= ThresholdNum * gcheck.total)
        /\ gcheck.total = 0 => gcheck.isolated = gcheck.before

\* all configured peers are known and a check has flipped the flag back
C16_Witness ==
    /\ gcheck.done /\ gcheck.before /\ ~gcheck.isolated
    /\ gcheck.total = Cardinality(GossipPeers)


(* ------------------------------ claims: ammo box ----------------------- *)
\* the maintainer and a caller work the pool while clients push and pop
AmmoNext ==
    \/ Pop
    \/ \E x \in Items : Push(x)
    \/ \E batch \in {<<"u">>, <<"u", "g">>} : PushBatch(batch)
    \/ \E t \in AmmoThreads : PushBatch_Push(t)
    \/ LoadFromDisk
    \/ \E t \in AmmoThreads : LoadFromDisk_Read(t)
    \/ \E t \in AmmoThreads : LoadFromDisk_Remove(t)
    \/ \E size \in {1, DumpBatch} : DumpToDisk(size)
    \/ \E t \in AmmoThreads : DumpToDisk_Pop(t)
    \/ \E t \in AmmoThreads : DumpToDisk_Write(t)
    \/ MaintainTick
    \/ MarkDumped
    \/ Shutdown
    \/ Tick

SpecAmmoBox == Init /\ [][AmmoNext]_vars

\* C17: in every reachable state the RAM pool holds between 0 and
\* ram_capacity items, and as many as the pushes the ring accepted minus the
\* pops that returned an item.
C17_PoolBounded ==
    /\ 0 <= Len(pool) /\ Len(pool) <= RamCapacity
    /\ Len(pool) = acount.pushed - acount.popped

\* the pool is full again after a dump wrote a batch and pushed it back
C17_Witness ==
    /\ Len(pool) = RamCapacity
    /\ acount.popped > 0
    /\ astats.dumped_to_disk > 0
    /\ \A t \in AmmoThreads : athread[t].pc \in {"idle", "stopped"}

\* C18: a push on a full pool hands the same item back and changes neither
\* the pool nor a counter; a pop on an empty pool returns nothing, adds
\* exactly one to pool_misses and changes neither the pool nor another counter.
C18_Boundary ==
    [][/\ (aret'.calls # aret.calls /\ aret'.op = "push" /\ Len(pool) = RamCapacity)
           => (aret'.back = aret'.item /\ pool' = pool /\ astats' = astats)
       /\ (aret'.calls # aret.calls /\ aret'.op = "pop" /\ pool = <<>>)
           => /\ aret'.back = NoItem /\ pool' = pool
              /\ astats' = [astats EXCEPT !.pool_misses = @ + 1]]_vars

\* a pop found the pool empty, and later a push was refused by the full pool
C18_Witness ==
    /\ aret.op = "push" /\ aret.back = aret.item /\ Len(pool) = RamCapacity
    /\ astats.pool_misses > 0

(* ------------------------------ claims: round trip --------------------- *)
\* a challenge is issued, clients submit answers to it, and the tokens the
\* verify calls return are presented to /validate
RoundTripNext ==
    \/ \E a \in GenAnswers, d \in Difficulties : Generate_Begin(1, a, d)
    \/ Generate_Store(1)
    \/ \E v \in VerifyIds, a \in UserAnswers : Verify_Get(v, 1, a)
    \/ \E v \in VerifyIds : Verify_Del(v)
    \/ \E v \in VerifyIds : Verify_Check(v)
    \/ \E v \in VerifyIds : Verify_Mint(v)
    \/ \E t \in VerifyIds : Validate_NoCircuit(1, t)
    \/ ValidatePassport_Ttl(1)
    \/ ValidatePassport_Expire(1)
    \/ Tick

SpecRoundTrip == Init /\ [][RoundTripNext]_vars

\* the passports minted for challenge c
PassportsOf(c) == {t \in VerifyIds : minted[t] >= 0 /\ vcall[t].cid = c}

\* C19: a verify that fetched the challenge and checks its correct answer
\* before expires_at goes on to mint a passport; a /validate of a token
\* minted less than passport_ttl earlier answers 200; and no challenge has
\* two passports.
C19_RoundTripOnce ==
    /\ [][\A v \in VerifyIds :
            (/\ vcall[v].pc = "check" /\ vcall'[v].pc # "check"
             /\ vcall[v].stored.present /\ vcall[v].correct
             /\ now <= vcall[v].stored.expires_at)
                => vcall'[v].pc = "mint"]_vars
    /\ [](\A r \in ReqIds :
            (req[r].pc = "done" /\ req[r].token # NoToken /\ req[r].fresh)
                => req[r].resp = 200)
    /\ [](\A c \in ChalIds : Cardinality(PassportsOf(c)) <= 1)

(* ------------------------------ claims: /verify and soft lock ---------- *)
\* a client of circuit C1 is shown a challenge, posts answers to /verify one
\* after another and asks for challenges
VerifyRouteNext ==
    \/ \E a \in GenAnswers, d \in Difficulties : Generate_Begin(1, a, d)
    \/ Generate_Store(1)
    \/ VerifyForm_Post(1, "C1")
    \/ \E a \in UserAnswers : VerifyForm_Verify(1, 1, a)
    \/ Verify_Del(1)
    \/ Verify_Check(1)
    \/ Verify_Mint(1)
    \/ VerifyForm_Respond(1)
    \/ GetChallenge_IsAllowed("C1")
    \/ GetChallenge_Generate
    \/ Tick

SpecVerifyRoute == Init /\ [][VerifyRouteNext]_vars

\* C20: once max_failed_attempts wrong POST /verify carrying a circuit_id
\* have been answered in a row, the circuit's record holds those failures,
\* and a GET /challenge with that circuit_id made before the soft lock would
\* run out answers 403 with the reason "Too many failed attempts...".
C20_SoftLockAfterWrongPosts ==
    \A c \in Circuits :
        /\ (wrongs[c].n >= MaxFailedAttempts /\ now - wrongs[c].at < SoftLockDuration)
               => (circuit[c].present /\ circuit[c].failed_attempts >= MaxFailedAttempts)
        /\ (chal.cid = c /\ chal.pc \in {"generate", "done"}
               /\ chal.after >= MaxFailedAttempts /\ chal.since < SoftLockDuration)
               => (chal.resp = 403
                   /\ chal.reason = "Too many failed attempts. Try again later.")

(* ------------------------------ claims: store errors on /validate ------ *)
\* /validate requests of one circuit carrying a minted token, any store call
\* of which may fail
ValidateErrNext ==
    \/ \E r \in 1..MaxChecks : Validate_IsAllowed(r, 1, "C1")
    \/ \E r \in 1..MaxChecks : Validate_IsAllowed_Err(r, 1, "C1")
    \/ \E r \in 1..MaxChecks : CheckRateLimit_Incr(r)
    \/ \E r \in 1..MaxChecks : CheckRateLimit_Expire(r)
    \/ \E r \in 1..MaxChecks : ValidatePassport_Exists(r)
    \/ \E r \in 1..MaxChecks : ValidatePassport_Ttl(r)
    \/ \E r \in 1..MaxChecks : ValidatePassport_Expire(r)
    \/ \E r \in 1..MaxChecks : Validate_StoreErr(r)
    \/ Tick

SpecValidateErr == InitRateLimit /\ [][ValidateErrNext]_vars

\* C21: a /validate request one of whose store calls failed (the admit
\* check, the rate limit or the passport lookup) answers 503, never 200.
C21_StoreError503 ==
    \A r \in ReqIds :
        (req[r].pc = "done" /\ req[r].failed) => (req[r].resp = 503 /\ req[r].resp # 200)

(* ------------------------------ claims: generate and the pool ---------- *)
\* the maintainer fills the pool, clients pop from it, and challenges are
\* generated
GeneratePoolNext ==
    \/ MaintainTick
    \/ PushBatch_Push("maint")
    \/ \E x \in Items : Push(x)
    \/ Pop
    \/ \E c \in ChalIds, a \in GenAnswers, d \in Difficulties : Generate_Begin(c, a, d)
    \/ \E c \in ChalIds : Generate_Store(c)
    \/ Tick

SpecGeneratePool == Init /\ [][GeneratePoolNext]_vars

\* C22: a generate that finds the RAM pool non-empty takes its CAPTCHA from
\* the pool: the pool loses exactly its oldest item and served grows by one.
C22_GenerateFromPool ==
    [][\A c \in ChalIds :
         (issued[c].state = "unused" /\ issued'[c].state = "computed" /\ pool # <<>>)
             => (pool' = Tail(pool) /\ astats'.served = astats.served + 1)]_vars

(* ------------------------------ claims: shutdown ----------------------- *)
\* the worker maintains the pool until it sees the shutdown signal, while
\* main serves, broadcasts the signal and returns
ShutdownNext ==
    \/ proc # "exited" /\ MaintainTick
    \/ proc # "exited" /\ PushBatch_Push("maint")
    \/ proc # "exited" /\ DumpToDisk_Pop("maint")
    \/ proc # "exited" /\ DumpToDisk_Write("maint")
    \/ proc # "exited" /\ MarkDumped
    \/ proc = "signalled" /\ Shutdown
    \/ ShutdownSignal
    \/ MainReturn
    \/ Tick

SpecShutdown == Init /\ [][ShutdownNext]_vars

\* C23: when the process has terminated, the worker has exited after its
\* flush, and every item of the RAM pool is in a spool file.
C23_FlushBeforeExit ==
    proc = "exited" =>
        /\ athread["maint"].pc = "stopped"
        /\ pool # <<>> => \E f \in FileNames : disk[f] = pool

(* ------------------------------ claims: GET / -------------------------- *)
\* circuit C1 collects failures or is banned, and its client asks for the
\* challenge page
ServePageNext ==
    \/ \E op \in {"record_failure", "ban"} : GetOrCreate_Get("w1", op, "C1")
    \/ GetOrCreate_Save("w1")
    \/ RecordFailure_Save("w1")
    \/ Ban_Save("w1")
    \/ ServeCaptchaPage("C1")
    \/ \E a \in GenAnswers, d \in Difficulties : ServeCaptchaPage_Generate(1, a, d)
    \/ Generate_Store(1)
    \/ ServeCaptchaPage_Render(1)
    \/ Tick

SpecServePage == Init /\ [][ServePageNext]_vars

\* C24: a GET / from a circuit whose record is Banned or SoftLocked is
\* answered 403 without a challenge being generated or stored for it.
C24_PageAdmitCheck ==
    (page.pc # "idle" /\ page.seen \in {"Banned", "SoftLocked"})
        => (page.pc = "done" /\ page.resp = 403 /\ \A c \in ChalIds : issued[c].state = "unused")

(* ------------------------------ claims: the answer comparison ---------- *)
\* the letters of an answer in lower case
ToLower(s) ==
    CASE s = "A7" -> "a7"
      [] s = "B7" -> "b7"
      [] OTHER -> s

\* the comparison the specification prescribes for a difficulty
Normalised(difficulty, user_answer, answer) ==
    IF difficulty \in {"Easy", "Medium"} THEN ToLower(user_answer) = ToLower(answer)
    ELSE user_answer = answer

\* C25: a verify goes on to mint a passport exactly when it fetched a
\* pending challenge, that challenge is unexpired, and the submitted answer
\* equals the stored one, ignoring case at Easy and Medium and exactly at
\* Hard and Extreme; it returns success only with a minted passport token.
C25_SuccessIffMatch ==
    /\ [][\A v \in VerifyIds :
            (vcall[v].pc = "check" /\ vcall'[v].pc # "check")
                => ((vcall'[v].pc = "mint") <=>
                       /\ vcall[v].stored.present
                       /\ now <= vcall[v].stored.expires_at
                       /\ Normalised(vcall[v].stored.difficulty, vcall[v].answer,
                                     vcall[v].stored.answer))]_vars
    /\ [][\A v \in VerifyIds :
            (vcall[v].pc = "mint" /\ vcall'[v].pc # "mint")
                => (vcall'[v].result = "success" /\ passport'[v].present)]_vars
    /\ [](\A v \in VerifyIds :
            vcall[v].result = "success" => (v # NoToken /\ minted[v] >= 0))

\* an answer differing from the stored one in case only was accepted and a
\* passport was minted for it
C25_Witness ==
    \E v \in VerifyIds :
        /\ vcall[v].result = "success" /\ ~vcall[v].correct /\ passport[v].present

(* ------------------------------ claims: the maintainer's bands --------- *)
\* the maintainer finds the pool of some capacity at some size, its last dump
\* older than dump_interval or not, and chooses
InitBand ==
    /\ CoreInit
    /\ CrossNodeInit /\ GossipInit /\ ThreatInit /\ RouteInit /\ AmmoPoolInit
    /\ \E capacity \in 1..MaxBandCapacity, len \in 0..MaxBandCapacity, sd \in BOOLEAN :
          /\ len <= capacity
          /\ band = [NoBand EXCEPT !.len = len, !.capacity = capacity, !.should_dump = sd]

BandNext == MaintainDecide

SpecMaintainBand == InitBand /\ [][BandNext]_vars

Pools == UNION {[1..n -> Items] : n \in 0..RamCapacity}

\* the worker starts on a pool that holds some CAPTCHAs
InitDump ==
    /\ CoreInit
    /\ CrossNodeInit /\ GossipInit /\ ThreatInit /\ RouteInit /\ AmmoWorkerInit
    /\ band = NoBand
    /\ pool \in Pools
    /\ acount = [pushed |-> Len(pool), popped |-> 0]

\* the worker is the pool's only producer (main.rs lines 84-89); consumers pop
DumpNext ==
    \/ MaintainTick
    \/ PushBatch_Push("maint")
    \/ DumpToDisk_Pop("maint")
    \/ DumpToDisk_Write("maint")
    \/ MarkDumped
    \/ Shutdown
    \/ Pop
    \/ Tick

SpecDump == InitDump /\ [][DumpNext]_vars

\* how many times each item occurs in a pool or a batch
Multiset(q) == [x \in Items |-> Cardinality({i \in DOMAIN q : q[i] = x})]

\* this step is the return of Ok from thread t's dump_to_disk
DumpReturnsOk(t) ==
    /\ athread[t].dump.on /\ ~athread'[t].dump.on
    /\ ~DumpToDisk_WriteErr(t)

\* the pops other threads made since thread t's dump_to_disk was called
OtherPops(t) ==
    acount'.popped - athread[t].dump.popped - Len(athread[t].dump.items)

DumpErrNext ==
    \/ MaintainTick
    \/ PushBatch_Push("maint")
    \/ DumpToDisk_Pop("maint")
    \/ DumpToDisk_Write("maint")
    \/ DumpToDisk_WriteErr("maint")
    \/ MarkDumped
    \/ Shutdown
    \/ Pop
    \/ Tick

SpecDumpErr == InitDump /\ [][DumpErrNext]_vars

\* C28: when a dump_to_disk returns an error of serialising or writing, the
\* pool still holds every item it held when the dump was called, less what
\* consumers popped meanwhile.
C28_FailedDumpKeepsPool ==
    [][\A t \in AmmoThreads :
         (athread[t].dump.on /\ DumpToDisk_WriteErr(t)) =>
             /\ Len(pool') = Len(athread[t].dump.before) - OtherPops(t)
             /\ OtherPops(t) = 0 =>
                    Multiset(pool') = Multiset(athread[t].dump.before)]_vars

\* the batches earlier dumps left in the spool
SpoolBatches == {NoFile, <<"g">>, <<"u", "g">>}

\* load_from_disk is called on a pool that holds some CAPTCHAs and a spool
\* that holds some files
InitLoad ==
    /\ CoreInit
    /\ CrossNodeInit /\ GossipInit /\ ThreatInit /\ RouteInit
    /\ band = NoBand
    /\ proc = "running"
    /\ astats = [served |-> 0, generated |-> 0, loaded_from_disk |-> 0,
                 dumped_to_disk |-> 0, pool_misses |-> 0]
    /\ disk \in [FileNames -> SpoolBatches]
    /\ last_dump = 0
    /\ athread = [t \in AmmoThreads |-> IdleThread]
    /\ aret = NoRet
    /\ pool \in Pools
    /\ acount = [pushed |-> Len(pool), popped |-> 0]

\* one thread loads, consumers pop
LoadSpoolNext ==
    \/ LoadFromDisk
    \/ LoadFromDisk_Read("api")
    \/ LoadFromDisk_ReadErr("api")
    \/ PushBatch_Push("api")
    \/ LoadFromDisk_Remove("api")
    \/ Pop

SpecLoad == InitLoad /\ [][LoadSpoolNext]_vars

\* C29: load_from_disk reads the spool files oldest first, keeps a file whose
\* load failed, and deletes a file only when every item of it has been pushed
\* into the pool, so that a pool that fills up during a load loses nothing.
C29_LoadLosesNothing ==
    [][\A t \in AmmoThreads :
         LET th == athread[t] IN
         /\ (LoadFromDisk_Read(t) \/ LoadFromDisk_ReadErr(t)) =>
                \A i \in 2..Len(th.entries) : Head(th.entries) < th.entries[i]
         /\ LoadFromDisk_ReadErr(t) => disk' = disk
         /\ LoadFromDisk_Remove(t) =>
                th.pushed = Len(disk[Head(th.entries)])]_vars

RECURSIVE SpoolCountFrom(_)
\* the CAPTCHAs held in the spool files named f and later
SpoolCountFrom(f) ==
    IF f > MaxTime THEN 0 ELSE Len(disk[f]) + SpoolCountFrom(f + 1)

\* C30: the number of CAPTCHAs held in the disk spool never exceeds
\* max_disk_cache.
C30_SpoolWithinQuota == SpoolCountFrom(0) <= MaxDiskCache

(* ------------------------------ claims: the gossip receiver ------------ *)
\* time passes while the receiver waits in select!, until its sleep is due
RunReceiver_Wait ==
    /\ now - rsleep < SleepInterval
    /\ Tick

\* the receiver's loop: in each turn either a datagram is handled or the
\* sleep armed at the start of the turn completes and the health check runs
ReceiverNext ==
    \/ \E p \in Datagrams : RunReceiver_Recv(p)
    \/ RunReceiver_Sleep
    \/ RunReceiver_Wait

SpecReceiver == Init /\ [][ReceiverNext]_vars

\* C31: a peer that stopped sending is marked unhealthy within peer_timeout
\* plus the period of the health check, however often other packets arrive:
\* no peer is healthy whose last packet is older than that.
C31_SilentPeerMarked ==
    \A p \in GossipPeers :
        (gpeers[p].known /\ gpeers[p].is_healthy) =>
            now - gpeers[p].last_seen <= PeerTimeout + SleepInterval

\* C32: a datagram that does not parse or carries the node's own id leaves
\* the peer map as it was, and the map never holds the node itself; any other
\* packet sets its sender's entry to healthy and seen now and leaves the other
\* entries as they were; no datagram changes the isolated flag.
C32_HandlePacketFrame ==
    /\ [][\A p \in Datagrams :
            HandlePacket(p) =>
                /\ isolated' = isolated
                /\ p \in {BadDatagram, GossipSelf} => gpeers' = gpeers
                /\ p \in GossipPeers =>
                       /\ gpeers'[p] = [known |-> TRUE, last_seen |-> now,
                                        is_healthy |-> TRUE]
                       /\ \A q \in DOMAIN gpeers \ {p} : gpeers'[q] = gpeers[q]]_vars
    /\ [](~gpeers[GossipSelf].known)

\* a packet of a peer arrived after a check that had found every known peer
\* timed out: the peer is healthy again and the node is still isolated
C32_Witness ==
    /\ isolated /\ gcheck.done /\ gcheck.total > 0
    /\ gcheck.timed_out = gcheck.total
    /\ ~gpeers[GossipSelf].known
    /\ \E p \in GossipPeers :
          /\ gpeers[p] = [known |-> TRUE, last_seen |-> now, is_healthy |-> TRUE]
          /\ \E q \in GossipPeers \ {p} : gpeers[q].known /\ ~gpeers[q].is_healthy

(* ------------------------------ claims: concurrent record_failure ------ *)
\* record_failure calls on one circuit, any number of them overlapping
FailRaceNext ==
    \/ \E w \in Workers : GetOrCreate_Get(w, "record_failure", "C1")
    \/ \E w \in Workers : GetOrCreate_Save(w)
    \/ \E w \in Workers : RecordFailure_Save(w)
    \/ Tick

SpecFailRace == Init /\ [][FailRaceNext]_vars

\* C33 as stated: when the last of k overlapping record_failure calls
\* returns, the stored failed_attempts is between 1 and k above what was
\* stored when the first of them started; and every call whose own count
\* reaches max_failed_attempts writes SoftLocked.
C33_RaceBounds ==
    [][\A w \in Workers :
         RecordFailure_Save(w) =>
             LET cid == tcall[w].cid IN
             /\ tcall[w].info.failed_attempts + 1 >= MaxFailedAttempts =>
                    circuit'[cid].status = "SoftLocked"
             /\ FailuresRunning(w, cid) = {} =>
                    /\ circuit'[cid].failed_attempts >= hist[cid].base + 1
                    /\ circuit'[cid].failed_attempts <= hist[cid].base + hist[cid].calls]_vars

\* C33 amended: the same, the lower bound for calls during which the record
\* was not evicted by its TTL.
C33_RaceBoundsUnlessEvicted ==
    [][\A w \in Workers :
         RecordFailure_Save(w) =>
             LET cid == tcall[w].cid IN
             /\ tcall[w].info.failed_attempts + 1 >= MaxFailedAttempts =>
                    circuit'[cid].status = "SoftLocked"
             /\ FailuresRunning(w, cid) = {} =>
                    /\ ~hist[cid].evicted =>
                           circuit'[cid].failed_attempts >= hist[cid].base + 1
                    /\ circuit'[cid].failed_attempts <= hist[cid].base + hist[cid].calls]_vars

\* two calls that overlapped have returned and one increment was lost
C33_Witness ==
    /\ now = 0 /\ hist["C1"].fails = 2 /\ hist["C1"].calls = 0
    /\ circuit["C1"].present /\ circuit["C1"].failed_attempts = 1

(* ------------------------------ claims: tracker, any interleaving ------ *)
\* the calls made in the life of circuit c's record: those that have
\* returned and those that are running
TrackerCalled(c) ==
    hist[c].fails + hist[c].succs + hist[c].bans
        + Cardinality({w \in Workers : tcall[w].pc # "idle" /\ tcall[w].cid = c})

\* the tracker's operations on one circuit, called by workers in any order
\* and overlapping; the workers are alike, so w2 takes a call only while w1 is
\* busy
TrackerNext ==
    \/ \E w \in Workers, op \in TrackerOps \ {"get_or_create"} :
          /\ TrackerCalled("C1") < MaxTrackerCalls
          /\ w = "w2" => tcall["w1"].pc # "idle"
          /\ GetOrCreate_Get(w, op, "C1")
    \/ \E w \in Workers : GetOrCreate_Save(w)
    \/ \E w \in Workers : RecordFailure_Save(w)
    \/ \E w \in Workers : RecordSuccess_Save(w)
    \/ \E w \in Workers : Ban_Save(w)
    \/ Tick

SpecTracker == Init /\ [][TrackerNext]_vars

\* C34: every write of a circuit record carries the TTL of the status it
\* writes (Banned: ban_duration, SoftLocked: soft_lock_duration, any other:
\* circuit_ttl); a SoftLocked record is gone soft_lock_duration after its last
\* write, and is_allowed allows a circuit whose record is gone.
C34_TtlByStatus ==
    /\ [][\A c \in Circuits :
            (circuit'[c] # circuit[c] /\ circuit'[c].present) =>
                circuit'[c].key_exp = now +
                    (CASE circuit'[c].status = "Banned" -> BanDuration
                       [] circuit'[c].status = "SoftLocked" -> SoftLockDuration
                       [] OTHER -> CircuitTtl)]_vars
    /\ [](\A c \in Circuits :
            (circuit[c].present /\ circuit[c].status = "SoftLocked") =>
                /\ now < circuit[c].key_exp
                /\ circuit[c].key_exp <= now + SoftLockDuration)
    /\ [](\A c \in Circuits : ~circuit[c].present => IsAllowed(circuit[c]) = <<TRUE, "">>)

\* a circuit soft-locked by its failures at time 0 and left alone is unknown
\* again after soft_lock_duration
C34_Witness ==
    /\ hist["C1"].last = "record_failure" /\ hist["C1"].fails >= MaxFailedAttempts
    /\ OnlyFailures("C1")
    /\ now = SoftLockDuration
    /\ ~circuit["C1"].present /\ IsAllowed(circuit["C1"])[1]
    /\ \A w \in Workers : tcall[w].pc = "idle"

(* ------------------------------ claims: the threat dial ---------------- *)
\* two admin clients post levels; every store write succeeds
ThreatNext ==
    \/ \E a \in Admins, payload \in Payloads : SetThreatLevel_Local(a, payload)
    \/ \E a \in Admins : SetThreatLevel_Store(a)
    \/ Tick

InitThreat == Init

SpecThreat == InitThreat /\ [][ThreatNext]_vars

\* C35: once every POST /admin/threat-level that was made has completed
\* successfully, the in-process dial is a value in 0..10 and equals the value
\* stored under cerberus:threat_level
C35_DialMatchesStore ==
    (/\ \A a \in Admins : scall[a].pc # "store"
     /\ \A a \in Admins : scall[a].pc = "done" => scall[a].status = 200
     /\ \E a \in Admins : scall[a].pc = "done")
    => (threat_level \in 0..MaxThreatLevel /\ threat_level = threat_key)

\* the same requests, where a store write may fail
ThreatErrNext ==
    \/ ThreatNext
    \/ \E a \in Admins : SetThreatLevel_StoreErr(a)

SpecThreatErr == InitThreat /\ [][ThreatErrNext]_vars

\* C40: a set_threat_level call whose store write fails returns an error and
\* leaves the in-process dial at the value it had before the call
C40_FailedWriteKeepsDial ==
    [][\A a \in Admins :
         SetThreatLevel_StoreErr(a) =>
            /\ scall'[a].status = StoreErrorStatus
            /\ threat_level' = scall[a].before]_vars

(* ------------------------------ claims: status and failure count ------- *)
\* C36: in every stored CircuitInfo, under any interleaving of tracker calls,
\* status SoftLocked implies failed_attempts >= max_failed_attempts, and
\* failed_attempts >= max_failed_attempts implies status SoftLocked or Banned
C36_LockMatchesCount ==
    \A c \in Circuits :
        circuit[c].present =>
            /\ circuit[c].status = "SoftLocked"
                  => circuit[c].failed_attempts >= MaxFailedAttempts
            /\ circuit[c].failed_attempts >= MaxFailedAttempts
                  => circuit[c].status \in {"SoftLocked", "Banned"}

\* a record at the threshold that a ban has overwritten while another call,
\* holding the record it read earlier, is still to write
C36_Witness ==
    /\ circuit["C1"].present
    /\ circuit["C1"].status = "Banned"
    /\ circuit["C1"].failed_attempts >= MaxFailedAttempts
    /\ \E w \in Workers : tcall[w].pc = "update"

(* ------------------------------ claims: the pool as configured --------- *)
\* main, line 79, and the batch sizes of maintain_ammo_box
MainRamCapacity == 10000
EmergencyBatchSize == 500
NormalBatchSize == 100

\* fill_percent on the configured capacity: (len / 10000.0 * 100.0) as u8.
\* The f64 product falls just below the whole number at three lengths.
FillPercentF64(len) ==
    IF len \in {2900, 5700, 5800} THEN FillPercentOf(len, MainRamCapacity) - 1
    ELSE FillPercentOf(len, MainRamCapacity)

\* push_batch, lines 142-152: the pushes stop at the first one refused
PushedLen(len, n) == IF len + n <= MainRamCapacity THEN len + n ELSE MainRamCapacity

\* one tick of the maintainer on the pool of main, by its length: the plan is
\* chosen from the fill and the constant CPU load; a generated batch is pushed;
\* a dump pushes back what it popped. The batch is pushed in one step:
\* consumers popping in between only lower the length reached.
MaintainProduction(sd) ==
    LET plan == MaintainPlan(FillPercentF64(band.len), CpuLoad, sd) IN
    /\ band' = [band EXCEPT
           !.decided = TRUE, !.should_dump = sd, !.plan = plan,
           !.len = IF plan.do = "generate"
                   THEN PushedLen(band.len, IF FillPercentF64(band.len) < 10
                                            THEN EmergencyBatchSize ELSE NormalBatchSize)
                   ELSE band.len]
    /\ UNCHANGED <<now, coreVars, crossNodeVars, gossipVars, threatVars, routeVars,
                   pool, astats, disk, last_dump, athread, acount, aret, proc>>

\* pop, lines 124-132: a consumer takes an item
ConsumerPop ==
    /\ band.len > 0
    /\ band' = [band EXCEPT !.len = band.len - 1]
    /\ UNCHANGED <<now, coreVars, crossNodeVars, gossipVars, threatVars, routeVars,
                   pool, astats, disk, last_dump, athread, acount, aret, proc>>

InitProduction ==
    /\ CoreInit
    /\ CrossNodeInit /\ GossipInit /\ ThreatInit /\ RouteInit /\ AmmoPoolInit
    /\ band = [NoBand EXCEPT !.capacity = MainRamCapacity]

ProductionNext ==
    \/ \E sd \in BOOLEAN : MaintainProduction(sd)
    \/ ConsumerPop

SpecProduction == InitProduction /\ [][ProductionNext]_vars

\* C37: with capacity 10 000, the constant CPU load and the maintainer as the
\* only producer, the pool never holds more than 8 099 items, its fill
\* percentage never exceeds 95, and no tick takes the surplus dump branch
C37_PoolBelowSurplus ==
    /\ band.len <= 8099
    /\ FillPercentF64(band.len) <= 95
    /\ band.plan.do # "dump"

\* the pool at 8 099 items, found there by a tick that did nothing
C37_Witness ==
    /\ band.len = 8099 /\ band.decided /\ band.plan = NoPlan

(* ------------------------------ claims: the rate key's expiry ---------- *)
\* C38: whenever no check_rate_limit call on a circuit is between its INCR
\* and its EXPIRE, an existing ratelimit:<circuit> key carries an expiry of
\* at most the rate window, also after a call whose EXPIRE failed; the key
\* then runs out and the circuit is allowed again
C38_RateKeyExpires ==
    \A c \in Circuits :
        (/\ ratelimit[c].present
         /\ \A r \in ReqIds : ~(req[r].pc = "rl_expire" /\ req[r].cid = c))
        => (/\ ratelimit[c].has_ttl
            /\ ratelimit[c].key_exp > now
            /\ ratelimit[c].key_exp <= now + RateWindow)

(* ------------------------------ claims: who touches the rate counter --- *)
\* a GET /challenge or POST /verify is being handled
RouteBusy == chal.pc = "generate" \/ vform[1].open

\* the two /validate requests followed
FrameReqs == {1, 2}

\* the requests to the other routes arrive at time 0, before the first
\* /validate
RoutesFirst == now = 0 /\ \A r \in FrameReqs : req[r].pc = "idle"

\* /validate requests of circuit C2 and without a circuit_id, two at a time,
\* and before them the requests to the other routes:
\* one GET /challenge of C2; a challenge generated and answered over POST
\* /verify until the first wrong answer
RateFrameNext ==
    \/ \E r \in FrameReqs, t \in {NoToken, 1} :
          ~RouteBusy /\ Validate_IsAllowed(r, t, "C2")
    \/ \E r \in FrameReqs, t \in {NoToken, 1} :
          ~RouteBusy /\ Validate_NoCircuit(r, t)
    \/ \E r \in FrameReqs : CheckRateLimit_Incr(r)
    \/ \E r \in FrameReqs : CheckRateLimit_Expire(r)
    \/ \E r \in FrameReqs : ValidatePassport_Exists(r)
    \/ \E r \in FrameReqs : ValidatePassport_Ttl(r)
    \/ \E r \in FrameReqs : ValidatePassport_Expire(r)
    \/ \E a \in GenAnswers : RoutesFirst /\ ~RouteBusy /\ Generate_Begin(1, a, "Easy")
    \/ Generate_Store(1)
    \/ RoutesFirst /\ ~RouteBusy /\ wrongs["C2"].n = 0 /\ VerifyForm_Post(1, "C2")
    \/ \E a \in UserAnswers : VerifyForm_Verify(1, 1, a)
    \/ Verify_Del(1)
    \/ Verify_Check(1)
    \/ Verify_Mint(1)
    \/ VerifyForm_Respond(1)
    \/ RoutesFirst /\ ~RouteBusy /\ chal.pc = "idle" /\ GetChallenge_IsAllowed("C2")
    \/ GetChallenge_Generate
    \/ Tick

SpecRateFrame == InitValidate /\ [][RateFrameNext]_vars

\* C39: a ratelimit key changes only by the INCR (plus one) and the EXPIRE of
\* a /validate request of that circuit that passed the admit-check, or by
\* running out; a request makes at most one INCR; a request answered 403 or
\* carrying no circuit_id changes no ratelimit key; a request with a
\* circuit_id answered 200, 401 or 429 has made its INCR; the steps of
\* /challenge and /verify change no ratelimit key
C39_RateCounterFrame ==
    /\ [][\A c \in Circuits :
            ratelimit'[c] # ratelimit[c] =>
               \/ \E r \in ReqIds :
                     /\ req[r].pc = "incr" /\ req[r].cid = c /\ req'[r].pc # "incr"
                     /\ req[r].seen \notin {"Banned", "SoftLocked"}
                     /\ ratelimit'[c].count =
                           (IF ratelimit[c].present THEN ratelimit[c].count ELSE 0) + 1
               \/ \E r \in ReqIds :
                     /\ req[r].pc = "rl_expire" /\ req[r].cid = c /\ req'[r].pc # "rl_expire"
                     /\ ratelimit'[c].count = ratelimit[c].count
               \/ now' # now /\ ~ratelimit'[c].present]_vars
    /\ [][\A r \in ReqIds :
            /\ req'[r].pc = "incr" => req[r].pc \in {"idle", "incr"}
            /\ (req'[r] # req[r] /\ (req'[r].resp = 403 \/ req'[r].cid = NoCid))
                  => ratelimit' = ratelimit]_vars
    /\ [][(now' = now /\ (vform' # vform \/ vcall' # vcall \/ chal' # chal
                           \/ wrongs' # wrongs \/ issued' # issued
                           \/ captcha' # captcha)) => ratelimit' = ratelimit]_vars
    /\ [](\A r \in ReqIds :
            req[r].pc = "done" =>
               /\ (req[r].resp = 403 \/ req[r].cid = NoCid) => req[r].count = 0
               /\ (req[r].cid # NoCid /\ req[r].resp \in {200, 401, 429})
                     => req[r].count >= 1)

\* a request of the soft-locked circuit was answered 403 without an INCR, a
\* later one was counted and answered 200, and a GET /challenge was answered
C39_Witness ==
    /\ \E r \in ReqIds : req[r].pc = "done" /\ req[r].resp = 403 /\ req[r].count = 0
    /\ \E r \in ReqIds : req[r].pc = "done" /\ req[r].resp = 200 /\ req[r].cid = "C2"
                         /\ req[r].count >= 1
    /\ chal.pc = "done"

=============================================================================
